---- MODULE Spec2Model ----
(***************************************************************************)
(* A model of the FTPS core of contrib/mod_tls.c: the per-session command  *)
(* state machine (AUTH, PBSZ, PROT, CCC, SSCN), the NetIO callbacks of the *)
(* control and data streams, the TLS session objects they own, the session *)
(* ticket key ring of the daemon and the OCSP response selection.          *)
(*                                                                         *)
(* One FTP session is one single-threaded process: every handler below     *)
(* runs to completion, so one handler is one action.                       *)
(***************************************************************************)
EXTENDS Integers, Sequences, FiniteSets, TLC

(***************************************************************************)
(* Bounds of the model (not program constants).                            *)
(***************************************************************************)
\* SSL objects one session may allocate (SSL_new calls)
MaxSsl == 2
\* application-data operations counted on one data connection
MaxXfer == 2
\* the daemon's clock stops at MaxTime seconds and advances by at most
\* TickStep seconds at a time (it never skips the deadline of a timer)
MaxTime == 180
TickStep == 30
\* runs of tls_init_ctx (the start of the daemon and its restarts)
MaxInit == 3
\* the stapling clock advances by OcspTickStep seconds up to OcspMaxTime;
\* a response with a nextUpdate is valid for OcspValidity seconds
OcspMaxTime == 4200
OcspTickStep == 350
OcspValidity == 1400

\* how many passphrases the daemon stores at most
MaxPkeys == 3

\* how many handshakes a session makes at most, and how often one handshake
\* waits for more I/O
MaxHs == 3
MaxTries == 2

\* how many DH parameters the array of a session holds at most
MaxDhs == 3

(***************************************************************************)
(* Program constants.                                                      *)
(***************************************************************************)
TLS_DH_MIN_LEN == 2048
TLS_DEFAULT_HANDSHAKE_TIMEOUT == 300
TLS_SSCN_MODE_SERVER == 0
TLS_SSCN_MODE_CLIENT == 1
\* the size of the per-session ticket appdata (tls_ctrl_ticket_appdatasz)
TicketAppdataSz == 32

\* the defaults of TLSSessionTicketKeys, the smallest age it accepts and the
\* longest interval between two new keys
TLS_DEFAULT_TICKET_KEY_MAX_AGE == 43200
TLS_DEFAULT_TICKET_KEY_MAX_COUNT == 25
TLS_MIN_TICKET_KEY_MAX_AGE == 60
TLS_NEW_TICKET_KEY_INTVL == 3600
OCSP_STALE_NO_NEXT_UPDATE == 3600
OCSP_STALE_UNSUCCESSFUL == 300

R_200 == 200
R_234 == 234
R_421 == 421
R_431 == 431
R_501 == 501
R_503 == 503
R_504 == 504
R_522 == 522
R_533 == 533
R_534 == 534
R_536 == 536
R_550 == 550
\* no reply added by this module (PR_DECLINED, or nothing sent yet)
NoReply == 0

\* a NULL pointer to an SSL object
NULL == 0

Streams == {"ctrl_rd", "ctrl_wr", "data_rd", "data_wr"}
Conns == {"ctrl", "data"}
ConnOf(strm) == IF strm \in {"ctrl_rd", "ctrl_wr"} THEN "ctrl" ELSE "data"
ModeOf(strm) == IF strm \in {"ctrl_rd", "data_rd"} THEN "RD" ELSE "WR"

SslIds == 1..MaxSsl

VARIABLES
  pc,                     \* "preinit" | "active" | "disconnected"
  tls_engine,             \* TLSEngine of the current virtual host
  tls_flags,              \* the TLS_SESS_* bits that are set
  tls_opts,               \* the TLS_OPT_* bits that are set
  tls_required_on_ctrl,   \* TLSRequired: 1 required, 0 not
  tls_required_on_data,   \* 1 required, 0 allowed, -1 forbidden
  tls_required_on_auth,
  have_certs,             \* some tls_*_cert_file / tls_pkcs12_file is set
  tls_renegotiate,        \* TLSRenegotiate: "off", "optional" or "required"
  rfc2228_mech,           \* session.rfc2228_mech: "NULL" or "TLS"
  authenticated,          \* the "authenticated" config parameter
  tls_sscn_mode,
  tls_ctrl_ticket_appdatasz,
  tls_ctrl_ticket_appdata_len,
  ctrl_ssl,               \* the SSL object of the control channel, or NULL
  ctrl_sess,              \* session id / protocol of the control TLS session
  n_ssl,                  \* SSL objects allocated so far
  ssl_st,                 \* per SSL object: "none","init","established","freed"
  ssl_sent,               \* per SSL object: SSL_SENT_SHUTDOWN
  notes,                  \* per stream: the TLS_NETIO_NOTE (an SSL id or NULL)
  strm_fd,                \* per stream: TRUE while strm_fd is an open fd
  wire,                   \* per connection: what the server put on the wire
  data,                   \* the data connection of the current transfer
  reply,                  \* the last FTP reply code of this module
  disc,                   \* reason of pr_session_disconnect, or "none"
  uaf,                    \* an SSL object was used after SSL_free
  last_cmd,               \* the handler that ran last, with its argument
  peeked,                 \* tls_end_sess found plain bytes when peeking
  end_bidi,               \* the last tls_end_sess had the flag BIDIRECTIONAL
  session_notes,          \* session.notes: "mod_core.host" and "mod_tls.sni"
  ssl_servername,         \* SSL_get_servername() of the last control handshake
  sni_vh,                 \* what tls_sni_cb found for that name (VhEnvs)
  \* ---- the session ticket key ring of the daemon ----
  now,                    \* time(NULL), in seconds since the daemon started
  have_keyset,            \* tls_ticket_keys != NULL
  tls_ticket_keys,        \* the list of the set: the created time of each key
  tls_ticket_key_curr_count,
  tls_ticket_key_max_age,
  tls_ticket_key_max_count,
  timers,                 \* the "New TLS Session Ticket Key" timers
  n_init,                 \* how often tls_init_ctx ran
  last_add,               \* what the step just taken did to the ring
  last_evicted,           \* the key that its remove_oldest_ticket_key removed
  \* ---- OCSP stapling ----
  ocsp_now,               \* time(NULL) as the stapling code reads it
  tls_stapling,           \* TLSStapling in effect
  tls_stapling_opts,      \* the TLSStaplingOptions that are set
  tls_stapling_responder, \* TRUE when a TLSStaplingResponder URL is set
  stapling_directive,     \* TLSStapling as tls_lookup_stapling last found it
  tls_ocsp_cache,         \* TRUE when a stapling cache is open
  ocsp_cached,            \* the cache's entry for the server certificate
  stapled,                \* what the last tls_ocsp_cb handed to the handshake
  \* ---- the Diffie-Hellman parameters of a session ----
  dh_pc,                  \* "config" until tls_lookup_dh_params has run
  tls_tmp_dhs,            \* the array of DH parameters: the bits of each
  opt_allow_weak_dh,      \* tls_opts & TLS_OPT_ALLOW_WEAK_DH
  dh_ret,                 \* the last call of tls_dh_cb and what it returned
  \* ---- the stored passphrases ----
  pk_pc,                  \* "daemon", or "session" after the fork
  tls_pkey_list,          \* the list of tls_pkey_t, the head first
  pk_pages,               \* the passphrase buffers that tls_get_page handed out
  pk_lookup,              \* the last call of tls_lookup_pkey: its arguments and the list it found
  \* ---- the session ticket callback ----
  ticket_ret,             \* what tls_ticket_key_cb did in the step just taken
  \* ---- the handshake loop of tls_accept ----
  hs_pc,                  \* "config", "idle" or "retry" (in the loop)
  hs_n,                   \* how many handshakes have started
  hs_conn,                \* the connection of the handshake: "ctrl" or "data"
  hs_res,                 \* what the last tls_accept returned
  hs_tries,               \* how often its SSL_accept has asked for more I/O
  hs_timers,              \* the "SSL/TLS handshake" timers that are armed
  tls_handshake_timer_id,
  tls_handshake_timeout,  \* TLSTimeoutHandshake, in seconds
  tls_handshake_timed_out,
  timed_out_by,           \* the handshake whose timer set the flag last
  ctx_cache_mode,         \* SSL_CTX_get_session_cache_mode(ssl_ctx)
  hs_cache_mode,          \* that mode when the handshake started
  cert_pc,                \* "config" | "ctrl" | "data"
  verify_client,          \* TLSVerifyClient: 0 off, 1 required, 2 optional
  cert_no_reuse,          \* TLSOptions NoSessionReuseRequired
  cert_have_ccc,          \* CCC has cleared the control connection
  ctrl_cert,              \* the certificate the peer sent on the control conn
  data_cert,              \* the certificate the peer sent on the data conn
  cert_role,              \* role in the data handshake: "server" | "client"
  cert_res,               \* how opening the data connection ended
  rn_pc,                  \* "config" | "run"
  rn_allow,               \* TLSOptions AllowClientRenegotiations
  rn_ctrl_timeout,        \* TLSRenegotiate ctrl: tls_ctrl_renegotiate_timeout > 0
  rn_data_limit,          \* TLSRenegotiate data: tls_data_renegotiate_limit > 0
  rn_flags,               \* tls_flags: ON_CTRL, ON_DATA, *_RENEGOTIATING
  tls_ctrl_need_init_handshake,
  tls_data_need_init_handshake,
  rn_ctrl,                \* ctrl_ssl: "none" | "up"
  rn_data,                \* the SSL of the data connection: "none" | "up"
  rn_hello,               \* the last ClientHello on an established session
  rn_disc                 \* the reason of pr_session_disconnect()

sessVars == <<pc, tls_engine, tls_flags, tls_opts, tls_required_on_ctrl,
              tls_required_on_data, tls_required_on_auth, have_certs,
              tls_renegotiate, rfc2228_mech, authenticated, tls_sscn_mode,
              tls_ctrl_ticket_appdatasz, tls_ctrl_ticket_appdata_len,
              ctrl_ssl, ctrl_sess, n_ssl, ssl_st, ssl_sent, notes, strm_fd, wire, data, reply, disc, uaf,
              last_cmd, peeked, end_bidi, session_notes, ssl_servername, sni_vh>>

keyVars == <<now, have_keyset, tls_ticket_keys, tls_ticket_key_curr_count,
             tls_ticket_key_max_age, tls_ticket_key_max_count, timers, n_init,
             last_add, last_evicted>>

sniVars == <<session_notes, ssl_servername, sni_vh>>

ocspVars == <<ocsp_now, tls_stapling, tls_stapling_opts,
              tls_stapling_responder, tls_ocsp_cache, ocsp_cached, stapled,
              stapling_directive>>

dhVars == <<dh_pc, tls_tmp_dhs, opt_allow_weak_dh, dh_ret>>

\* the state outside the session, the key ring and the stapling
pkeyVars == <<pk_pc, tls_pkey_list, pk_pages, pk_lookup>>

tkVars == <<ticket_ret>>

hsVars == <<hs_pc, hs_n, hs_conn, hs_res, hs_tries, hs_timers,
            tls_handshake_timer_id, tls_handshake_timeout,
            tls_handshake_timed_out, timed_out_by, ctx_cache_mode,
            hs_cache_mode>>

certVars == <<cert_pc, verify_client, cert_no_reuse, cert_have_ccc, ctrl_cert,
              data_cert, cert_role, cert_res>>

renegVars == <<rn_pc, rn_allow, rn_ctrl_timeout, rn_data_limit, rn_flags, tls_ctrl_need_init_handshake,
               tls_data_need_init_handshake, rn_ctrl, rn_data, rn_hello,
               rn_disc>>

auxVars == <<dhVars, pkeyVars, tkVars, hsVars, certVars, renegVars>>

cfgVars == <<tls_engine, tls_opts, tls_required_on_ctrl, tls_required_on_data,
             tls_required_on_auth, have_certs, tls_renegotiate,
             tls_ctrl_ticket_appdatasz, tls_ctrl_ticket_appdata_len>>

\* the options of TLSOptions that the modelled handlers read
ModelledOpts == {"NoSessionReuseRequired", "AllowPerUser", "UseImplicitSSL",
                 "IgnoreSNI"}

\* the session flags that the virtual host configuration sets at session init
ConfigFlags == {"VERIFY_CLIENT_REQUIRED"}

\* the TLS session of a data connection as the handshake left it: whether
\* the client resumed a session, the session id, the appdata of the ticket it
\* presented ("none": no appdata of the expected size), the protocol version
\* (kept until the first read or write on the connection)
NoDataSess == [reused |-> FALSE, sid |-> 0, appdata |-> "none",
               proto |-> "none"]

\* session.d: no data connection
NoData == [open |-> FALSE, ok |-> FALSE, xerrno |-> "none",
           need_prot |-> FALSE, hs_done |-> FALSE, accepted |-> FALSE,
           tls_bytes |-> 0, plain_bytes |-> 0, sess |-> NoDataSess,
           cmd |-> "none"]

(***************************************************************************)
(* The part of the state that the TLS session helpers change, as a record, *)
(* so that a handler can chain several helper calls.                       *)
(***************************************************************************)
World == [ssl_st |-> ssl_st, ssl_sent |-> ssl_sent, wire |-> wire,
          disc |-> disc, uaf |-> uaf, ctrl_ssl |-> ctrl_ssl, notes |-> notes,
          peeked |-> peeked, end_bidi |-> end_bidi]

SetWorld(w) ==
  /\ ssl_st' = w.ssl_st
  /\ ssl_sent' = w.ssl_sent
  /\ wire' = w.wire
  /\ disc' = w.disc
  /\ uaf' = w.uaf
  /\ ctrl_ssl' = w.ctrl_ssl
  /\ notes' = w.notes
  /\ peeked' = w.peeked
  /\ end_bidi' = w.end_bidi

FinSent(w, conn) == \E i \in DOMAIN w.wire[conn] : w.wire[conn][i] = "FIN"

\* shutdown(2) with SHUT_WR/SHUT_RDWR, or close(2): the TCP FIN goes out once
SendFin(w, conn) ==
  IF FinSent(w, conn) THEN w ELSE [w EXCEPT !.wire[conn] = Append(@, "FIN")]

\* An SSL pointer is usable between SSL_new and SSL_free.
Live(w, id) == id # NULL /\ w.ssl_st[id] \in {"init", "established"}

\* (variant: no alert is written)
SSL_shutdown_quiet(w, id, conn) == w

\* SSL_shutdown(ssl) when SSL_SENT_SHUTDOWN is not yet set: an established
\* session writes the close_notify alert (it reaches the wire unless the write
\* side of the socket is already shut down); a session whose handshake never
\* completed sends nothing.
SSL_shutdown(w, id, conn) ==
  IF w.ssl_st[id] = "established"
  THEN [w EXCEPT !.ssl_sent[id] = TRUE,
                 !.wire[conn] = IF FinSent(w, conn) THEN @
                                ELSE Append(@, "close_notify")]
  ELSE w

\* pr_session_disconnect(), or the death of the process: the first reason
\* is kept.
Disconnect(w, why) == IF w.disc = "none" THEN [w EXCEPT !.disc = why] ELSE w

\* SSL_free(ssl): the object and its shutdown state are gone
SSL_free(w, id) == [w EXCEPT !.ssl_st[id] = "freed", !.ssl_sent[id] = FALSE]

\* What the environment decides during one tls_end_sess call:
\*   rcvd  the peer's close_notify had already been received
\*   peek  the result of peek_is_ssl_data(): -1 error, 0 FALSE, 1 TRUE
\*   segv  SSL_get_session(NULL) faults (it dereferences its argument in
\*         OpenSSL builds before 3.2, and returns NULL in later ones)
EndEnvs == [rcvd : BOOLEAN, peek : {-1, 0, 1}, segv : BOOLEAN]
UniEnvs == {e \in EndEnvs : e.rcvd = FALSE /\ e.peek = 1}

\* tls_end_sess(ssl, conn, flags); bidi is TLS_SHUTDOWN_FL_BIDIRECTIONAL.
tls_end_sess(w, id, conn, bidi, env) ==
  IF id = NULL THEN w
  ELSE IF ~Live(w, id) THEN [w EXCEPT !.uaf = TRUE]
  ELSE
    LET w0 == [w EXCEPT !.end_bidi = bidi]
        w1 == IF ~w.ssl_sent[id] THEN SSL_shutdown(w0, id, conn) ELSE w0
    IN IF bidi /\ ~env.rcvd /\ env.peek = -1
       THEN Disconnect(SSL_free(w1, id), "BY_APPLICATION")
       ELSE IF bidi /\ ~env.rcvd /\ env.peek = 0
       THEN [SSL_free(w1, id) EXCEPT !.peeked = TRUE]
       ELSE IF id # w1.ctrl_ssl /\ w1.ctrl_ssl = NULL /\ env.segv
       THEN Disconnect(w1, "SIGSEGV")
       ELSE SSL_free(w1, id)

\* The outcomes of one TLS handshake attempt.
HsOutcomes == {"ok", "fail", "timeout", "nomem"}

\* The host names that a HOST command or the server_name extension carry;
\* NoName is the NULL string (no HOST so far, no extension).
Names == {"foo.example.com", "FOO.Example.COM", "bar.example.com",
          "192.0.2.1", "2001:db8::1"}
NoName == "NULL"
pr_netaddr_is_v4(name) == name = "192.0.2.1"
pr_netaddr_is_v6(name) == name = "2001:db8::1"
tolower(name) == IF name = "FOO.Example.COM" THEN "foo.example.com" ELSE name
strcasecmp(a, b) == IF tolower(a) = tolower(b) THEN 0 ELSE 1

\* session.notes without "mod_core.host" and "mod_tls.sni"
NoNotes == [host |-> NoName, sni |-> NoName]

\* What tls_sni_cb finds when it looks for the virtual host of a name:
\*   namebinds          pr_namebind_count(main_server) > 0
\*   named              pr_namebind_get_server(): "none", "main" or "other"
\*   engine             TLSEngine of that other host
\*   set_all            tls_ssl_set_all() succeeds for that other host
\*   protocol_ok        the session's protocol version is enabled there
\*   unrecognized_name  the build defines SSL_AD_UNRECOGNIZED_NAME
\* (Only what the outcome leaves open is varied.  A name that selects
\* another host with TLS in working order swaps the configuration of the
\* session; that swap is not modelled and such a lookup is not explored.)
NoVh == [namebinds |-> FALSE, named |-> "none", engine |-> FALSE,
         set_all |-> FALSE, protocol_ok |-> FALSE,
         unrecognized_name |-> TRUE]
VhEnvs ==
  {v \in [namebinds : BOOLEAN, named : {"none", "main", "other"},
          engine : BOOLEAN, set_all : BOOLEAN, protocol_ok : BOOLEAN,
          unrecognized_name : BOOLEAN] :
     /\ ~v.namebinds => v = NoVh
     /\ v.named # "other" => ~v.engine
     /\ ~v.engine => ~v.set_all
     /\ ~v.set_all => ~v.protocol_ok
     /\ ~(v.named = "other" /\ v.engine /\ v.set_all /\ v.protocol_ok)
     /\ (v.named = "other" /\ v.engine) => v.unrecognized_name}

\* (variant: the name is compared once an SNI has been stashed)
HostMismatch_stashed(sn, server_name) ==
  /\ sn.host # NoName /\ sn.sni # NoName
  /\ ~pr_netaddr_is_v4(sn.host) /\ ~pr_netaddr_is_v6(sn.host)
  /\ strcasecmp(sn.host, server_name) # 0

\* tls_sni_cb(): a HOST command came first, no SNI is stashed yet, and the
\* name of the HOST, not an address, differs from the server_name
HostMismatch(sn, server_name) ==
  /\ sn.host # NoName /\ sn.sni = NoName
  /\ ~pr_netaddr_is_v4(sn.host) /\ ~pr_netaddr_is_v6(sn.host)
  /\ strcasecmp(sn.host, server_name) # 0

\* (variant: TLSEngine of the named host is not looked at)
tls_sni_cb_no_engine(sn, opts, server_name, vh) ==
  LET ok(n) == [ret |-> "OK", alert |-> "none", notes |-> n]
      fatal(n, a) == [ret |-> "ALERT_FATAL", alert |-> a, notes |-> n]
      stashed == IF sn.sni = NoName THEN [sn EXCEPT !.sni = server_name]
                 ELSE sn
  IN
  IF server_name = NoName THEN ok(sn)
  ELSE IF HostMismatch(sn, server_name) THEN fatal(sn, "access_denied")
  ELSE IF "IgnoreSNI" \in opts THEN ok(sn)
  ELSE IF pr_netaddr_is_v4(server_name) \/ pr_netaddr_is_v6(server_name)
  THEN ok(sn)
  ELSE IF ~vh.namebinds THEN ok(stashed)
  ELSE IF vh.named = "none"
  THEN fatal(stashed, IF vh.unrecognized_name THEN "unrecognized_name"
                      ELSE "access_denied")
  ELSE IF vh.named = "main" THEN ok(stashed)
  ELSE IF ~vh.set_all THEN fatal(stashed, "access_denied")
  ELSE IF ~vh.protocol_ok THEN fatal(stashed, "protocol_version")
  ELSE ok(stashed)

\* tls_sni_cb(): what the server_name of a ClientHello leads to: the return
\* value, the alert and the session notes.
tls_sni_cb(sn, opts, server_name, vh) ==
  LET ok(n) == [ret |-> "OK", alert |-> "none", notes |-> n]
      fatal(n, a) == [ret |-> "ALERT_FATAL", alert |-> a, notes |-> n]
      stashed == IF sn.sni = NoName THEN [sn EXCEPT !.sni = server_name]
                 ELSE sn
  IN
  IF server_name = NoName THEN ok(sn)
  ELSE IF HostMismatch(sn, server_name) THEN fatal(sn, "access_denied")
  ELSE IF "IgnoreSNI" \in opts THEN ok(sn)
  ELSE IF pr_netaddr_is_v4(server_name) \/ pr_netaddr_is_v6(server_name)
  THEN ok(sn)
  ELSE IF ~vh.namebinds THEN ok(stashed)
  ELSE IF vh.named = "none"
  THEN fatal(stashed, IF vh.unrecognized_name THEN "unrecognized_name"
                      ELSE "access_denied")
  ELSE IF vh.named = "main" THEN ok(stashed)
  ELSE IF ~vh.engine
  THEN fatal(stashed, IF vh.unrecognized_name THEN "unrecognized_name"
                      ELSE "handshake_failure")
  ELSE IF ~vh.set_all THEN fatal(stashed, "access_denied")
  ELSE IF ~vh.protocol_ok THEN fatal(stashed, "protocol_version")
  ELSE ok(stashed)

\* tls_accept(session.c, FALSE): the handshake of the control connection.
\* id is the SSL object that SSL_new returns, cb the result of tls_sni_cb
\* for the ClientHello: a fatal result makes SSL_accept send the alert and
\* fail.
tls_accept_ctrl(w, flags, id, hs, cert_ok, env, cb) ==
  IF hs = "nomem" THEN [res |-> -2, w |-> w]
  ELSE
    LET w0 == [w EXCEPT !.ssl_st[id] = "init"] IN
    IF hs = "timeout"
    THEN [res |-> -4, w |-> tls_end_sess(w0, id, "ctrl", FALSE, env)]
    ELSE IF cb.ret = "ALERT_FATAL"
    THEN [res |-> -3,
          w |-> tls_end_sess([w0 EXCEPT !.wire["ctrl"] = Append(@, cb.alert)],
                             id, "ctrl", FALSE, env)]
    ELSE IF hs = "fail"
    THEN [res |-> -3, w |-> tls_end_sess(w0, id, "ctrl", FALSE, env)]
    ELSE
      LET w1 == [w0 EXCEPT !.ssl_st[id] = "established",
                           !.wire["ctrl"] = Append(@, "hs"),
                           !.ctrl_ssl = id,
                           !.notes["ctrl_rd"] = id,
                           !.notes["ctrl_wr"] = id]
      IN IF "VERIFY_CLIENT_REQUIRED" \in flags /\ ~cert_ok
         THEN [res |-> -1,
               w |-> [tls_end_sess(w1, id, "ctrl", FALSE, env)
                        EXCEPT !.ctrl_ssl = NULL]]
         ELSE [res |-> 0, w |-> w1]

\* The session process is alive and between two handlers.  A command's
\* reply is pending until the core has flushed it (Flush).
NoCmd == [name |-> "none", arg |-> "none"]
Active == pc = "active" /\ disc = "none" /\ ~uaf /\ last_cmd = NoCmd

\* the control connection still carries commands
CtrlOpen ==
  strm_fd["ctrl_rd"] /\ strm_fd["ctrl_wr"] /\ ~FinSent(World, "ctrl")

\* a command handler runs between transfers, never inside one
CmdReady == Active /\ CtrlOpen /\ ~data.open

(***************************************************************************)
(* Session start-up.                                                       *)
(***************************************************************************)
\* set_tlsrequired: the <<on_ctrl, on_data, on_auth>> that the arguments of
\* TLSRequired produce: off, on/both, ctrl, data, !data, ctrl+!data, auth,
\* auth+data, auth+!data.
set_tlsrequired ==
  { <<0, 0, 0>>, <<1, 1, 1>>, <<1, 0, 1>>, <<0, 1, 0>>, <<0, -1, 0>>,
    <<1, -1, 1>>, <<0, 0, 1>>, <<0, 1, 1>>, <<0, -1, 1>> }

\* What the configuration of a virtual host makes of the module's settings in
\* tls_sess_init (TLSEngine, TLSOptions, TLSRequired, certificates,
\* TLSVerifyClient, TLSRenegotiate: "absent" or with arguments) and whether
\* RAND_bytes filled the ticket appdata.
AllConfigs ==
  [engine : BOOLEAN, opts : SUBSET ModelledOpts, req : set_tlsrequired,
   certs : BOOLEAN, verify : BOOLEAN, appdata_len : {0, TicketAppdataSz},
   reneg : {"absent", "optional", "required"}]

\* "TLSEngine on" with a certificate and nothing else
PlainConfig ==
  [engine |-> TRUE, opts |-> {}, req |-> <<0, 0, 0>>, certs |-> TRUE,
   verify |-> FALSE, appdata_len |-> TicketAppdataSz, reneg |-> "absent"]

\* The virtual hosts explored: PlainConfig, and PlainConfig with one setting
\* of it changed (one option of TLSOptions at a time), or with UseImplicitSSL
\* and a TLSRequired that forbids protected data transfers.
Configs ==
  {c \in AllConfigs :
     /\ \E f \in DOMAIN PlainConfig :
          \A g \in DOMAIN PlainConfig \ {f} :
            \/ c[g] = PlainConfig[g]
            \/ /\ g = "req" /\ c.req = <<0, -1, 0>>
               /\ c.opts = {"UseImplicitSSL"}
     /\ \A o1, o2 \in c.opts : o1 = o2}

\* the virtual hosts explored without the options that only the SNI
\* callback reads, and those explored with a server_name in the handshake
SessConfigs == {c \in Configs : "IgnoreSNI" \notin c.opts}
SniConfigs ==
  {c \in Configs : c.opts \subseteq {"IgnoreSNI", "UseImplicitSSL"}
                   /\ c.reneg = "absent" /\ c.appdata_len = TicketAppdataSz}

\* the TLSRequired directives that a user's section may hold (tls_post_pass)
UserRequired == {<<>>, <<1, 1, 1>>, <<0, -1, 0>>}

Protos == {"TLSv1.2", "TLSv1.3"}

\* What the peer and the environment decide during one control handshake.
\* (Only what the outcome leaves open is varied.)
AllCtrlHs ==
  {h \in [hs : HsOutcomes, cert_ok : BOOLEAN, env : UniEnvs,
          server_name : Names \cup {NoName}, vh : VhEnvs] :
     /\ h.hs # "ok" => h.cert_ok
     /\ h.hs \in {"ok", "nomem"} => ~h.env.segv
     /\ h.server_name = NoName => h.vh = NoVh}

\* the control handshakes of a client that sends no server_name
CtrlHs == {h \in AllCtrlHs : h.server_name = NoName}

\* the control handshakes of a client that sends a server_name or none, with
\* a ClientHello that arrives when it sends one
SniHs ==
  {h \in AllCtrlHs :
     /\ h.hs \in {"ok", "fail"} /\ h.cert_ok /\ ~h.env.segv
     /\ h.server_name # NoName => h.hs = "ok"}

\* the session notes after the handshake h: tls_sni_cb runs once the
\* ClientHello is in
NotesAfter(opts, h) ==
  IF h.hs \in {"ok", "fail"}
  THEN tls_sni_cb(session_notes, opts, h.server_name, h.vh).notes
  ELSE session_notes

\* the server_name that the handshake h hands to the callbacks
HelloName(h) == IF h.hs \in {"ok", "fail"} THEN h.server_name ELSE NoName

\* what the lookup of that name finds
HelloVh(h) == IF h.hs \in {"ok", "fail"} THEN h.vh ELSE NoVh

\* the TLS session that the control handshake establishes
NewCtrlSess(h) == [sid |-> 1]
NoSess == [sid |-> 0]

\* (variant: data protection is asked for whatever TLSRequired says)
implicit_flags_always(required_on_data) == {"ON_CTRL", "NEED_DATA_PROT"}

\* tls_sess_init(): the flags that a successful implicit handshake sets
implicit_flags(required_on_data) ==
  {"ON_CTRL"} \cup (IF required_on_data # -1 THEN {"NEED_DATA_PROT"} ELSE {})

\* tls_sess_init(): base holds the settings at entry, cfg is the configuration
\* found; with UseImplicitSSL the control handshake takes place here.  (A
\* later HOST command that selects another virtual host is not modelled.)
tls_sess_init(base, cfg, hss) ==
  IF ~cfg.engine
  THEN /\ tls_engine' = FALSE
       /\ tls_flags' = base.flags
       /\ tls_opts' = base.opts
       /\ tls_required_on_ctrl' = base.req[1]
       /\ tls_required_on_data' = base.req[2]
       /\ tls_required_on_auth' = base.req[3]
       /\ have_certs' = base.certs
       /\ UNCHANGED <<tls_renegotiate, tls_ctrl_ticket_appdatasz,
                      tls_ctrl_ticket_appdata_len, rfc2228_mech, n_ssl,
                      ctrl_sess, reply, sniVars>>
       /\ SetWorld(World)
  ELSE
    LET fl == base.flags \cup (IF cfg.verify THEN {"VERIFY_CLIENT_REQUIRED"}
                               ELSE {})
    IN
    /\ tls_engine' = TRUE
    /\ tls_opts' = cfg.opts
    /\ tls_required_on_ctrl' = cfg.req[1]
    /\ tls_required_on_data' = cfg.req[2]
    /\ tls_required_on_auth' = cfg.req[3]
    /\ have_certs' = cfg.certs
    /\ tls_renegotiate' = IF cfg.reneg = "absent" THEN tls_renegotiate
                          ELSE cfg.reneg
    /\ tls_ctrl_ticket_appdatasz' = TicketAppdataSz
    /\ tls_ctrl_ticket_appdata_len' =
         IF tls_ctrl_ticket_appdatasz = 0 THEN cfg.appdata_len
         ELSE tls_ctrl_ticket_appdata_len
    /\ IF "UseImplicitSSL" \notin cfg.opts
       THEN /\ tls_flags' = fl
            /\ UNCHANGED <<rfc2228_mech, n_ssl, ctrl_sess, reply, sniVars>>
            /\ SetWorld(World)
       ELSE
         /\ n_ssl < MaxSsl
         /\ \E h \in hss :
            LET id == n_ssl + 1
                cb == tls_sni_cb(session_notes, cfg.opts, h.server_name, h.vh)
                r == tls_accept_ctrl(World, fl, id, h.hs, h.cert_ok, h.env, cb)
            IN /\ n_ssl' = IF h.hs = "nomem" THEN n_ssl ELSE id
               /\ session_notes' = NotesAfter(cfg.opts, h)
               /\ ssl_servername' = HelloName(h)
               /\ sni_vh' = HelloVh(h)
               /\ IF r.res < 0
                  THEN /\ reply' = R_421
                       /\ SetWorld(Disconnect(r.w, "CLIENT_EOF"))
                       /\ tls_flags' = fl
                       /\ UNCHANGED <<rfc2228_mech, ctrl_sess>>
                  ELSE /\ SetWorld(r.w)
                       /\ tls_flags' = fl \cup implicit_flags(cfg.req[2])
                       /\ rfc2228_mech' = "TLS"
                       /\ ctrl_sess' = NewCtrlSess(h)
                       /\ reply' = NoReply

\* the settings of the running session
CurState ==
  [flags |-> tls_flags, opts |-> tls_opts,
   req |-> <<tls_required_on_ctrl, tls_required_on_data, tls_required_on_auth>>,
   certs |-> have_certs]

\* The session process starts: the core runs the module's session
\* initialisation once.
SessInit(cfgs, hss) ==
  /\ pc = "preinit" /\ disc = "none"
  /\ pc' = "active"
  /\ \E cfg \in cfgs : tls_sess_init(CurState, cfg, hss)
  /\ last_cmd' = NoCmd
  /\ UNCHANGED <<authenticated, tls_sscn_mode, strm_fd, data, keyVars, ocspVars, auxVars>>

(***************************************************************************)
(* The FTP command handlers.                                               *)
(***************************************************************************)
XferCmds == {"LIST", "RETR"}

\* (variant: no check of TLSRequired auth)
tls_any_no_auth(cmd, dir_req) ==
  IF tls_engine = FALSE THEN NoReply
  ELSE IF cmd \in {"SYST", "AUTH", "FEAT", "HOST", "CLNT", "QUIT"} THEN NoReply
  ELSE IF /\ tls_required_on_ctrl = 1 /\ "ON_CTRL" \notin tls_flags
          /\ ("AllowPerUser" \notin tls_opts \/ authenticated)
  THEN R_550
  ELSE IF tls_required_on_data = 1
  THEN IF "NEED_DATA_PROT" \notin tls_flags /\ cmd \in XferCmds
       THEN R_522 ELSE NoReply
  ELSE IF cmd \in XferCmds /\ dir_req /\ "NEED_DATA_PROT" \notin tls_flags
       THEN R_522 ELSE NoReply

\* tls_any(): the PRE_CMD handler of every command.  It returns the error
\* reply it adds, or NoReply when it declines (the command goes on).
\* dir_req says that a TLSRequired of the current directory asks for
\* protected data transfers.
tls_any(cmd, dir_req) ==
  IF tls_engine = FALSE THEN NoReply
  ELSE IF cmd \in {"SYST", "AUTH", "FEAT", "HOST", "CLNT", "QUIT"} THEN NoReply
  ELSE IF /\ tls_required_on_auth = 1 /\ "ON_CTRL" \notin tls_flags
          /\ "AllowPerUser" \notin tls_opts
          /\ cmd \in {"USER", "PASS", "ACCT"}
  THEN R_550
  ELSE IF /\ tls_required_on_ctrl = 1 /\ "ON_CTRL" \notin tls_flags
          /\ ("AllowPerUser" \notin tls_opts \/ authenticated)
  THEN R_550
  ELSE IF tls_required_on_data = 1
  THEN IF "NEED_DATA_PROT" \notin tls_flags /\ cmd \in XferCmds
       THEN R_522 ELSE NoReply
  ELSE IF cmd \in XferCmds /\ dir_req /\ "NEED_DATA_PROT" \notin tls_flags
       THEN R_522 ELSE NoReply

\* the arguments of AUTH that the model distinguishes ("none": no argument)
AuthArgs == {"none", "TLS", "tls", "TLS-C", "SSL", "TLS-P", "FOO"}

\* tls_auth(): the argument converted to upper case
toupper(arg) == IF arg = "tls" THEN "TLS" ELSE arg

\* (variant: a mechanism that is not TLS's is answered with 504)
tls_auth_unsupported_504 == R_504

\* tls_auth(): a mechanism that is not TLS's is declined without a reply
tls_auth_unsupported == NoReply

\* (variant: no refusal of AUTH after CCC)
tls_auth_refusal_no_ccc(arg) ==
  IF "ON_CTRL" \in tls_flags THEN R_503
  ELSE IF arg = "none" THEN R_504
  ELSE IF ~have_certs THEN R_431
  ELSE IF authenticated /\ "AllowPerUser" \notin tls_opts THEN R_534
  ELSE NoReply

\* tls_auth(): the refusals that precede the look at the mechanism, in the
\* order of the code; NoReply when none applies.
tls_auth_refusal(arg) ==
  IF "ON_CTRL" \in tls_flags THEN R_503
  ELSE IF arg = "none" THEN R_504
  ELSE IF "HAVE_CCC" \in tls_flags THEN R_534
  ELSE IF ~have_certs THEN R_431
  ELSE IF authenticated /\ "AllowPerUser" \notin tls_opts THEN R_534
  ELSE NoReply

\* tls_auth(): the AUTH command.
tls_auth(arg, hss) ==
  /\ CmdReady
  /\ last_cmd' = [name |-> "AUTH", arg |-> arg]
  /\ UNCHANGED <<pc, cfgVars, authenticated, tls_sscn_mode, strm_fd, data,
                 keyVars, ocspVars, auxVars>>
  /\ LET err(code) ==
           /\ reply' = code
           /\ UNCHANGED <<tls_flags, rfc2228_mech, n_ssl, ctrl_sess,
                          sniVars>>
           /\ SetWorld(World)
     IN
     IF tls_engine = FALSE THEN err(NoReply)
     ELSE IF tls_auth_refusal(arg) # NoReply THEN err(tls_auth_refusal(arg))
     ELSE IF toupper(arg) \notin {"TLS", "TLS-C", "SSL", "TLS-P"}
     THEN err(tls_auth_unsupported)
     ELSE
       /\ n_ssl < MaxSsl
       /\ \E h \in hss :
          LET id == n_ssl + 1
              w0 == [World EXCEPT !.wire["ctrl"] = Append(@, "R234")]
              cb == tls_sni_cb(session_notes, tls_opts, h.server_name, h.vh)
              r == tls_accept_ctrl(w0, tls_flags, id, h.hs, h.cert_ok, h.env,
                                   cb)
          IN /\ n_ssl' = IF h.hs = "nomem" THEN n_ssl ELSE id
             /\ session_notes' = NotesAfter(tls_opts, h)
             /\ ssl_servername' = HelloName(h)
             /\ sni_vh' = HelloVh(h)
             /\ IF r.res < 0
                THEN /\ reply' = R_421
                     /\ SetWorld(Disconnect(r.w,
                          IF tls_required_on_ctrl = 1 THEN "CONFIG_ACL"
                          ELSE "BY_APPLICATION"))
                     /\ UNCHANGED <<tls_flags, rfc2228_mech, ctrl_sess>>
                ELSE /\ reply' = R_234
                     /\ SetWorld(r.w)
                     /\ tls_flags' = tls_flags \cup {"ON_CTRL"} \cup
                          (IF toupper(arg) \in {"SSL", "TLS-P"}
                           THEN {"NEED_DATA_PROT"} ELSE {})
                     /\ rfc2228_mech' = "TLS"
                     /\ ctrl_sess' = NewCtrlSess(h)

\* a PRE_CMD error of tls_any keeps the command from its handler
DeniedIn(cmd, arg, dir_req) ==
  /\ tls_any(cmd, dir_req) # NoReply
  /\ reply' = tls_any(cmd, dir_req)
  /\ last_cmd' = [name |-> cmd, arg |-> arg]

Denied(cmd, arg) == DeniedIn(cmd, arg, FALSE)

\* (variant: the handlers do not look at session.rfc2228_mech)
HaveMech_engine == tls_engine

\* tls_pbsz(), tls_prot(), tls_ccc(), tls_sscn(): the handler goes on only
\* with TLSEngine on and "TLS" as the session's RFC 2228 mechanism
HaveMech == tls_engine /\ rfc2228_mech = "TLS"

\* (variant: CCC leaves TLS_SESS_ON_CTRL set)
tls_ccc_flags_keep(flags) == flags \cup {"HAVE_CCC"}

\* tls_ccc(): the flags once the control channel has been cleared
tls_ccc_flags(flags) == (flags \ {"ON_CTRL"}) \cup {"HAVE_CCC"}

\* (variant: the reply is sent once the TLS session has been shut down)
tls_ccc_clear_late(w, env) ==
  LET w1 == tls_end_sess(w, ctrl_ssl, "ctrl", TRUE, env)
  IN [w1 EXCEPT !.wire["ctrl"] = Append(@, "R200")]

\* tls_ccc(): pr_response_send_async(R_200), then the bidirectional shutdown
\* of the control TLS session
tls_ccc_clear(w, env) ==
  tls_end_sess([w EXCEPT !.wire["ctrl"] = Append(@, "R200")],
               ctrl_ssl, "ctrl", TRUE, env)

\* tls_ccc(): the CCC command.  limit_ok is the result of dir_check().
tls_ccc(limit_ok) ==
  /\ CmdReady
  /\ UNCHANGED <<pc, cfgVars, authenticated, tls_sscn_mode, strm_fd, data,
                 keyVars, ocspVars, auxVars, sniVars, rfc2228_mech, n_ssl,
                 ctrl_sess>>
  /\ \/ /\ Denied("CCC", "none")
        /\ UNCHANGED tls_flags /\ SetWorld(World)
     \/ /\ tls_any("CCC", FALSE) = NoReply
        /\ last_cmd' = [name |-> "CCC", arg |-> "none"]
        /\ LET err(code) ==
                 reply' = code /\ UNCHANGED tls_flags /\ SetWorld(World)
           IN
           IF ~HaveMech THEN err(NoReply)
           ELSE IF "ON_CTRL" \notin tls_flags THEN err(R_533)
           ELSE IF tls_required_on_ctrl = 1 THEN err(R_534)
           ELSE IF ~limit_ok THEN err(R_534)
           ELSE
             \E env \in EndEnvs :
             LET w1 == tls_ccc_clear(World, env)
             IN /\ reply' = R_200
                /\ IF w1.disc # "none"
                   THEN SetWorld(w1) /\ UNCHANGED tls_flags
                   ELSE /\ SetWorld([w1 EXCEPT !.notes["ctrl_rd"] = NULL,
                                               !.notes["ctrl_wr"] = NULL,
                                               !.ctrl_ssl = NULL])
                        /\ tls_flags' = tls_ccc_flags(tls_flags)

\* the variables that only the handshakes and shutdowns change
ioVars == <<n_ssl, ctrl_sess, ctrl_ssl, ssl_st, ssl_sent, notes, strm_fd, wire,
            data, disc, uaf, peeked, end_bidi>>

\* tls_pbsz(): the PBSZ command (with its one argument).
tls_pbsz ==
  /\ CmdReady
  /\ UNCHANGED <<pc, cfgVars, authenticated, tls_sscn_mode, rfc2228_mech,
                 ioVars, keyVars, ocspVars, auxVars, sniVars>>
  /\ \/ Denied("PBSZ", "0") /\ UNCHANGED tls_flags
     \/ /\ tls_any("PBSZ", FALSE) = NoReply
        /\ last_cmd' = [name |-> "PBSZ", arg |-> "0"]
        /\ IF ~HaveMech THEN reply' = NoReply /\ UNCHANGED tls_flags
           ELSE IF "ON_CTRL" \notin tls_flags
           THEN reply' = R_503 /\ UNCHANGED tls_flags
           ELSE reply' = R_200 /\ tls_flags' = tls_flags \cup {"PBSZ_OK"}

ProtArgs == {"C", "P", "S", "E", "X"}

\* (variant: TLSRequired is not consulted)
prot_allowed_any(arg) == TRUE

\* tls_prot(): TLSRequired lets the data transfers be clear (PROT C) or
\* protected (PROT P)
prot_allowed(arg) ==
  IF arg = "C" THEN tls_required_on_data # 1 ELSE tls_required_on_data # -1

\* tls_prot(): the PROT command.  limit_ok is the result of dir_check().
tls_prot(arg, limit_ok) ==
  /\ CmdReady
  /\ UNCHANGED <<pc, cfgVars, authenticated, tls_sscn_mode, rfc2228_mech,
                 ioVars, keyVars, ocspVars, auxVars, sniVars>>
  /\ \/ Denied("PROT", arg) /\ UNCHANGED tls_flags
     \/ /\ tls_any("PROT", FALSE) = NoReply
        /\ last_cmd' = [name |-> "PROT", arg |-> arg]
        /\ LET err(code) == reply' = code /\ UNCHANGED tls_flags IN
           IF ~HaveMech THEN err(NoReply)
           ELSE IF "ON_CTRL" \notin tls_flags /\ "HAVE_CCC" \notin tls_flags
           THEN err(R_503)
           ELSE IF ~limit_ok THEN err(R_534)
           ELSE IF arg = "C"
           THEN IF prot_allowed(arg)
                THEN /\ reply' = R_200
                     /\ tls_flags' =
                          (tls_flags \ {"NEED_DATA_PROT"}) \cup {"PBSZ_OK"}
                ELSE err(R_534)
           ELSE IF arg = "P"
           THEN IF prot_allowed(arg)
                THEN /\ reply' = R_200
                     /\ tls_flags' = tls_flags \cup {"NEED_DATA_PROT", "PBSZ_OK"}
                ELSE err(R_534)
           ELSE IF arg \in {"S", "E"} THEN err(R_536)
           ELSE err(R_504)

SscnArgs == {"none", "ON", "OFF", "FOO"}

\* tls_sscn(): the SSCN command with at most one argument.
tls_sscn(arg, limit_ok) ==
  /\ CmdReady
  /\ UNCHANGED <<pc, cfgVars, authenticated, tls_flags, rfc2228_mech, ioVars,
                 keyVars, ocspVars, auxVars, sniVars>>
  /\ \/ Denied("SSCN", arg) /\ UNCHANGED tls_sscn_mode
     \/ /\ tls_any("SSCN", FALSE) = NoReply
        /\ last_cmd' = [name |-> "SSCN", arg |-> arg]
        /\ LET ret(code) == reply' = code /\ UNCHANGED tls_sscn_mode IN
           IF ~HaveMech THEN ret(NoReply)
           ELSE IF ~limit_ok THEN ret(R_550)
           ELSE IF arg = "none" THEN ret(R_200)
           ELSE IF arg = "ON"
           THEN reply' = R_200 /\ tls_sscn_mode' = TLS_SSCN_MODE_CLIENT
           ELSE IF arg = "OFF"
           THEN reply' = R_200 /\ tls_sscn_mode' = TLS_SSCN_MODE_SERVER
           ELSE ret(R_501)

\* USER and ACCT: of this module only tls_any() handles them; the command
\* goes on to the core unless tls_any() rejects it.
LoginCmds == {"USER", "ACCT"}
tls_any_login(cmd) ==
  /\ CmdReady
  /\ last_cmd' = [name |-> cmd, arg |-> "none"]
  /\ reply' = tls_any(cmd, FALSE)
  /\ UNCHANGED <<pc, cfgVars, tls_flags, authenticated, tls_sscn_mode,
                 rfc2228_mech, ioVars, keyVars, ocspVars, auxVars, sniVars>>

\* PASS: tls_any() first; a successful login sets "authenticated", and
\* tls_post_pass() then looks TLSRequired up again (found: the directive it
\* finds, or <<>> when there is none) and ends a session that does not meet it.
tls_post_pass(login_ok, found) ==
  /\ CmdReady
  /\ UNCHANGED <<pc, tls_engine, tls_opts, have_certs, tls_renegotiate,
                 tls_ctrl_ticket_appdatasz, tls_ctrl_ticket_appdata_len,
                 tls_flags, tls_sscn_mode, rfc2228_mech, n_ssl, ctrl_sess,
                 ctrl_ssl, ssl_st, ssl_sent, notes, strm_fd, wire, data, uaf,
                 peeked, end_bidi, keyVars, ocspVars, auxVars, sniVars>>
  /\ \/ /\ Denied("PASS", "none")
        /\ UNCHANGED <<authenticated, tls_required_on_ctrl,
                       tls_required_on_data, tls_required_on_auth, disc>>
     \/ /\ tls_any("PASS", FALSE) = NoReply
        /\ last_cmd' = [name |-> "PASS", arg |-> "none"]
        /\ reply' = NoReply
        /\ authenticated' = (authenticated \/ login_ok)
        /\ IF tls_engine /\ login_ok /\ "AllowPerUser" \in tls_opts
              /\ found # <<>>
           THEN /\ tls_required_on_ctrl' = found[1]
                /\ tls_required_on_data' = found[2]
                /\ tls_required_on_auth' = found[3]
                /\ disc' = IF (found[1] = 1 \/ found[3] = 1)
                              /\ "ON_CTRL" \notin tls_flags
                           THEN "CONFIG_ACL" ELSE disc
           ELSE UNCHANGED <<tls_required_on_ctrl, tls_required_on_data,
                            tls_required_on_auth, disc>>

(***************************************************************************)
(* The data connection.                                                    *)
(***************************************************************************)
\* What the peer and the environment decide during one data handshake:
\* the outcome, the session the client offers, whether its certificate
\* differs from the one of the control connection (both present), and, for
\* the client role, whether the server certificate checks out.
\* (Only what the role and the outcome leave open is varied.)
AllDataHs ==
  [hs : HsOutcomes, reused : BOOLEAN, sid : {1, 2},
   appdata : {"none", "A", "B"}, proto : Protos, cert_mismatch : BOOLEAN,
   server_cert_ok : BOOLEAN, env : UniEnvs]

NoOffer(h) ==
  /\ ~h.reused /\ h.sid = 2 /\ h.appdata = "none" /\ h.proto = "TLSv1.2"
  /\ ~h.cert_mismatch

AcceptHs ==
  {h \in AllDataHs : /\ h.server_cert_ok
                     /\ h.hs # "ok" => NoOffer(h)
                     /\ h.hs = "nomem" => ~h.env.segv}

ConnectHs ==
  {h \in AllDataHs : /\ NoOffer(h)
                     /\ h.hs # "ok" => h.server_cert_ok
                     /\ h.hs = "nomem" => ~h.env.segv}

\* the ticket appdata of the control session is "A" when RAND_bytes filled it
CtrlAppdata == IF tls_ctrl_ticket_appdata_len > 0 THEN "A" ELSE "none"

\* tls_compare_session_ids(): 0 when the ids are the same, else -1
tls_compare_session_ids(c, d) == IF c.sid = d.sid THEN 0 ELSE -1

\* (variant: a session that was not resumed passes)
ReuseCheck_any(w, h) ==
  IF "NoSessionReuseRequired" \in tls_opts \/ "HAVE_CCC" \in tls_flags THEN 0
  ELSE IF w.ctrl_ssl = NULL THEN (IF h.env.segv THEN -2 ELSE -1)
  ELSE IF ~Live(w, w.ctrl_ssl) THEN -2
  ELSE IF tls_compare_session_ids(ctrl_sess, h) = 0 THEN 0
  ELSE IF /\ tls_ctrl_ticket_appdata_len > 0
          /\ h.appdata # "none"
          /\ h.appdata = CtrlAppdata
       THEN 0
  ELSE -1

\* the session-reuse requirement of tls_accept for a data connection: 0 when
\* the session is acceptable, -1 when the connection is to be rejected, -2
\* when SSL_get_session(NULL) faults
ReuseCheck(w, h) ==
  IF "NoSessionReuseRequired" \in tls_opts \/ "HAVE_CCC" \in tls_flags THEN 0
  ELSE IF ~h.reused THEN -1
  ELSE IF w.ctrl_ssl = NULL THEN (IF h.env.segv THEN -2 ELSE -1)
  ELSE IF ~Live(w, w.ctrl_ssl) THEN -2
  ELSE IF tls_compare_session_ids(ctrl_sess, h) = 0 THEN 0
  ELSE IF /\ tls_ctrl_ticket_appdata_len > 0
          /\ h.appdata # "none"
          /\ h.appdata = CtrlAppdata
       THEN 0
  ELSE -1

RemoveDataNotes(w) ==
  [w EXCEPT !.notes["data_rd"] = NULL, !.notes["data_wr"] = NULL]

SetDataNotes(w, id) ==
  [w EXCEPT !.notes["data_rd"] = id, !.notes["data_wr"] = id]

\* tls_accept(session.d, TRUE): the server-role handshake of a data
\* connection.
tls_accept_data(w, id, h) ==
  IF h.hs = "nomem" THEN [res |-> -2, w |-> w]
  ELSE
    LET w0 == [w EXCEPT !.ssl_st[id] = "init"] IN
    IF h.hs = "timeout"
    THEN [res |-> -4, w |-> tls_end_sess(w0, id, "data", FALSE, h.env)]
    ELSE IF h.hs = "fail"
    THEN [res |-> -3, w |-> tls_end_sess(w0, id, "data", FALSE, h.env)]
    ELSE
      LET w1 == SetDataNotes([w0 EXCEPT !.ssl_st[id] = "established",
                                       !.wire["data"] = Append(@, "hs")],
                             id)
          rc == ReuseCheck(w1, h)
      IN IF rc = 0 THEN [res |-> 0, w |-> w1]
         ELSE IF rc = -2 THEN [res |-> -1, w |-> Disconnect(w1, "SIGSEGV")]
         ELSE [res |-> -1,
               w |-> RemoveDataNotes(
                       tls_end_sess(w1, id, "data", FALSE, h.env))]

\* tls_connect(session.d): the client-role handshake of a data connection.
tls_connect(w, id, h) ==
  IF h.hs = "nomem" THEN [res |-> -2, w |-> w]
  ELSE
    LET w0 == [w EXCEPT !.ssl_st[id] = "init"] IN
    IF h.hs = "timeout"
    THEN [res |-> -4, w |-> tls_end_sess(w0, id, "data", FALSE, h.env)]
    ELSE IF h.hs = "fail"
    THEN [res |-> -3, w |-> tls_end_sess(w0, id, "data", FALSE, h.env)]
    ELSE
      LET w1 == SetDataNotes([w0 EXCEPT !.ssl_st[id] = "established",
                                       !.wire["data"] = Append(@, "hs")],
                             id)
      IN IF ~h.server_cert_ok
         THEN [res |-> -1, w |-> tls_end_sess(w1, id, "data", FALSE, h.env)]
         ELSE [res |-> 0, w |-> w1]

\* (variant: only TLSRequired asks for the handshake)
NeedDataHandshake_required == tls_required_on_data = 1

\* (variant: every data connection gets a handshake)
NeedDataHandshake_always == TRUE

\* tls_netio_postopen_cb(): whether the data connection gets a handshake
NeedDataHandshake ==
  tls_required_on_data = 1 \/ "NEED_DATA_PROT" \in tls_flags

\* The role of the server in the handshake of a data connection: directory
\* listings are always handled in the server role, other transfers as SSCN
\* says.
ServerRole_sscn(cmd) == tls_sscn_mode = TLS_SSCN_MODE_SERVER

ServerRole(cmd) == cmd = "LIST" \/ tls_sscn_mode = TLS_SSCN_MODE_SERVER

\* A transfer command opens the data connection: tls_netio_open_cb() on its
\* two streams, then tls_netio_postopen_cb() on the write stream.  The
\* result of the callback is kept in data.ok: after -1 the core gives the
\* transfer up and closes the connection.
tls_netio_postopen_cb(cmd) ==
  /\ CmdReady
  /\ UNCHANGED <<pc, cfgVars, authenticated, tls_sscn_mode, rfc2228_mech,
                 ctrl_sess, keyVars, ocspVars, auxVars, sniVars>>
  /\ \/ /\ \E dir_req \in BOOLEAN : DeniedIn(cmd, "none", dir_req)
        /\ UNCHANGED <<tls_flags, n_ssl, strm_fd, data>>
        /\ SetWorld(World)
     \/ /\ tls_any(cmd, FALSE) = NoReply
        /\ UNCHANGED <<last_cmd, reply>>
        /\ strm_fd' = [strm_fd EXCEPT !["data_rd"] = TRUE, !["data_wr"] = TRUE]
        /\ \E h \in (IF ~NeedDataHandshake
                       THEN {CHOOSE x \in ConnectHs : x.hs = "nomem"}
                       ELSE IF ServerRole(cmd)
                       THEN AcceptHs ELSE ConnectHs) :
           LET need == NeedDataHandshake
               server == ServerRole(cmd)
               d0 == [NoData EXCEPT !.open = TRUE, !.cmd = cmd,
                                    !.need_prot = "NEED_DATA_PROT" \in tls_flags]
               w0 == RemoveDataNotes([World EXCEPT !.wire["data"] = <<>>])
               id == n_ssl + 1
               r == IF server THEN tls_accept_data(w0, id, h)
                    ELSE tls_connect(w0, id, h)
               sess == [reused |-> h.reused, sid |-> h.sid,
                        appdata |-> h.appdata, proto |-> h.proto]
           IN
           IF ~need
           THEN /\ data' = [d0 EXCEPT !.ok = TRUE]
                /\ SetWorld(w0)
                /\ UNCHANGED <<tls_flags, n_ssl>>
           ELSE
             /\ n_ssl < MaxSsl
             /\ n_ssl' = IF h.hs = "nomem" THEN n_ssl ELSE id
             /\ IF r.res < 0
                THEN /\ data' = [d0 EXCEPT !.xerrno = "EPERM",
                                           !.sess = IF server /\ h.hs = "ok"
                                                    THEN sess ELSE NoDataSess]
                     /\ SetWorld(r.w)
                     /\ UNCHANGED tls_flags
                ELSE IF server /\ h.cert_mismatch /\ r.w.ctrl_ssl # NULL
                THEN /\ data' = [d0 EXCEPT !.xerrno = "EPERM",
                                           !.hs_done = TRUE,
                                           !.accepted = TRUE, !.sess = sess]
                     /\ SetWorld(RemoveDataNotes(
                          tls_end_sess(r.w, id, "data", FALSE, h.env)))
                     /\ UNCHANGED tls_flags
                ELSE /\ data' = [d0 EXCEPT !.ok = TRUE, !.hs_done = TRUE,
                                           !.accepted = server,
                                           !.sess = IF server THEN sess
                                                    ELSE NoDataSess]
                     /\ SetWorld(r.w)
                     /\ tls_flags' = tls_flags \cup {"ON_DATA"}

DataStreams == {"data_rd", "data_wr"}

Running == Active /\ CtrlOpen

\* tls_netio_read_cb() / tls_netio_write_cb() on a stream of the data
\* connection, with tls_data_renegotiate(); crossed says that the transfer
\* has reached the data limit of TLSRenegotiate.
tls_netio_io_cb(strm, crossed) ==
  /\ Running
  /\ crossed => tls_renegotiate # "off"
  /\ strm \in DataStreams
  /\ data.open /\ data.ok /\ strm_fd[strm] /\ ~FinSent(World, "data")
  /\ data.tls_bytes + data.plain_bytes < MaxXfer
  /\ UNCHANGED <<pc, cfgVars, authenticated, tls_sscn_mode, rfc2228_mech,
                 reply, last_cmd, n_ssl, ctrl_sess, ctrl_ssl, ssl_st, ssl_sent,
                 notes, strm_fd, wire, disc, peeked, end_bidi, keyVars, ocspVars,
                 auxVars, sniVars>>
  /\ IF notes[strm] = NULL
     THEN /\ data' = [data EXCEPT !.plain_bytes = @ + 1, !.sess = NoDataSess]
          /\ UNCHANGED <<tls_flags, uaf>>
     ELSE IF ~Live(World, notes[strm])
     THEN uaf' = TRUE /\ UNCHANGED <<data, tls_flags>>
     ELSE /\ data' = [data EXCEPT !.tls_bytes = @ + 1, !.sess = NoDataSess]
          /\ tls_flags' = IF crossed
                          THEN tls_flags \cup {"DATA_RENEGOTIATING"}
                          ELSE tls_flags
          /\ UNCHANGED uaf

\* the other stream of the same connection
Peer(strm) ==
  CASE strm = "ctrl_rd" -> "ctrl_wr"
    [] strm = "ctrl_wr" -> "ctrl_rd"
    [] strm = "data_rd" -> "data_wr"
    [] strm = "data_wr" -> "data_rd"

\* the streams are shut down and closed between two handlers, those of the
\* control connection at the end of the session, when no transfer is left
Alive == Active
Closable(strm) ==
  Alive /\ strm_fd[strm] /\ (ConnOf(strm) = "ctrl" => ~data.open)

\* tls_netio_shutdown_cb(nstrm, how): how is 0 (SHUT_RD), 1 (SHUT_WR) or
\* 2 (SHUT_RDWR).
tls_netio_shutdown_cb(strm, how) ==
  /\ Closable(strm) /\ strm_fd[Peer(strm)]
  /\ data' = IF ConnOf(strm) = "data" THEN [data EXCEPT !.sess = NoDataSess]
             ELSE data
  /\ UNCHANGED <<pc, cfgVars, tls_flags, authenticated, tls_sscn_mode,
                 rfc2228_mech, reply, last_cmd, n_ssl, ctrl_sess, strm_fd,
                 keyVars, ocspVars, auxVars, sniVars>>
  /\ LET ssl == notes[strm]
         conn == ConnOf(strm)
         w1 == IF how \in {1, 2} /\ ModeOf(strm) = "WR" /\ ssl # NULL
               THEN IF ~Live(World, ssl) THEN [World EXCEPT !.uaf = TRUE]
                    ELSE IF ~ssl_sent[ssl] THEN SSL_shutdown(World, ssl, conn)
                    ELSE World
               ELSE World
     IN SetWorld(IF how \in {1, 2} THEN SendFin(w1, conn) ELSE w1)

\* (variant: the close of either stream ends the TLS session)
EndsSession_any(strm) == notes[strm] # NULL

\* tls_netio_close_cb(): the close of this stream ends its TLS session
EndsSession(strm) == notes[strm] # NULL /\ ModeOf(strm) = "WR"

\* tls_netio_close_cb(nstrm).  The descriptors of the two streams of a
\* connection refer to one socket: the FIN goes out when the second one is
\* closed.  The core shuts a stream down only while both streams of its
\* connection are open.  The closed
\* stream is destroyed, and session.d with its second stream (the record of
\* what the data connection put on the wire goes with it).
tls_netio_close_cb(strm, env) ==
  /\ Closable(strm)
  /\ UNCHANGED <<pc, cfgVars, authenticated, tls_sscn_mode, rfc2228_mech,
                 reply, last_cmd, n_ssl, ctrl_sess, keyVars, ocspVars, auxVars, sniVars>>
  /\ LET ssl == notes[strm]
         conn == ConnOf(strm)
         ends == EndsSession(strm)
         w1 == IF ends THEN tls_end_sess(World, ssl, conn, FALSE, env)
               ELSE World
         last == ~strm_fd[Peer(strm)]
         w2 == [(IF last THEN SendFin(w1, conn) ELSE w1)
                  EXCEPT !.notes[strm] = NULL]
         w3 == IF conn = "data" /\ last
               THEN [w2 EXCEPT !.wire["data"] = <<>>] ELSE w2
     IN IF w1.disc = "SIGSEGV"
        THEN SetWorld(w1) /\ UNCHANGED <<tls_flags, strm_fd, data>>
        ELSE /\ SetWorld(w3)
             /\ tls_flags' = IF ends
                             THEN tls_flags \ {IF conn = "ctrl" THEN "ON_CTRL"
                                               ELSE "ON_DATA"}
                             ELSE tls_flags
             /\ strm_fd' = [strm_fd EXCEPT ![strm] = FALSE]
             /\ data' = IF conn = "data" /\ last THEN NoData
                        ELSE [data EXCEPT !.sess = NoDataSess]

\* tls_ctrl_renegotiate_cb(): the TLSRenegotiate timer of the control
\* channel.  can says that a key update (TLSv1.3) or a renegotiation (with
\* AllowClientRenegotiations) can be requested.
tls_ctrl_renegotiate_cb(can) ==
  /\ Running
  /\ tls_renegotiate # "off"
  /\ ctrl_ssl # NULL /\ "ON_CTRL" \in tls_flags
  /\ tls_flags' = IF can THEN tls_flags \cup {"CTRL_RENEGOTIATING"}
                  ELSE tls_flags
  /\ UNCHANGED <<pc, cfgVars, authenticated, tls_sscn_mode, rfc2228_mech,
                 reply, last_cmd, ioVars, keyVars, ocspVars, auxVars, sniVars>>

\* tls_renegotiate_timeout_cb().  ctrl_done / data_done: the peer has
\* renegotiated.  SSL_version()
\* of a NULL pointer faults or, in later OpenSSL builds, reports a session
\* that has nothing pending.
tls_renegotiate_timeout_cb(ctrl_done, data_done, env) ==
  /\ Running
  /\ {"CTRL_RENEGOTIATING", "DATA_RENEGOTIATING"} \cap tls_flags # {}
  /\ UNCHANGED <<pc, cfgVars, authenticated, tls_sscn_mode, rfc2228_mech,
                 reply, last_cmd, n_ssl, ctrl_sess, strm_fd, data, keyVars, ocspVars, auxVars, sniVars>>
  /\ LET required == tls_renegotiate = "required"
         on_c == {"ON_CTRL", "CTRL_RENEGOTIATING"} \subseteq tls_flags
         c == IF ~on_c THEN [w |-> World, fl |-> tls_flags]
              ELSE IF ctrl_ssl = NULL
              THEN IF env.segv
                   THEN [w |-> Disconnect(World, "SIGSEGV"), fl |-> tls_flags]
                   ELSE [w |-> World,
                         fl |-> tls_flags \ {"CTRL_RENEGOTIATING"}]
              ELSE IF ctrl_done
              THEN [w |-> World, fl |-> tls_flags \ {"CTRL_RENEGOTIATING"}]
              ELSE IF required
              THEN [w |-> [tls_end_sess(World, ctrl_ssl, "ctrl", FALSE, env)
                             EXCEPT !.notes["ctrl_rd"] = NULL,
                                    !.notes["ctrl_wr"] = NULL,
                                    !.ctrl_ssl = NULL],
                    fl |-> tls_flags]
              ELSE [w |-> World, fl |-> tls_flags]
         on_d == {"ON_DATA", "DATA_RENEGOTIATING"} \subseteq tls_flags
         ssl == c.w.notes["data_wr"]
         d == IF ~on_d \/ c.w.disc # "none" THEN c
              ELSE IF ~data.open THEN [c EXCEPT !.w.uaf = TRUE]
              ELSE IF ssl = NULL
              THEN IF env.segv
                   THEN [c EXCEPT !.w = Disconnect(c.w, "SIGSEGV")]
                   ELSE [c EXCEPT !.fl = @ \ {"DATA_RENEGOTIATING"}]
              ELSE IF ~Live(c.w, ssl) THEN [c EXCEPT !.w.uaf = TRUE]
              ELSE IF data_done
              THEN [c EXCEPT !.fl = @ \ {"DATA_RENEGOTIATING"}]
              ELSE IF required
              THEN [c EXCEPT !.w = RemoveDataNotes(
                        tls_end_sess(c.w, ssl, "data", FALSE, env))]
              ELSE c
     IN SetWorld(d.w) /\ tls_flags' = d.fl

\* tls_timeout_ev(): one of the core's session timeouts (idle, login,
\* session) has expired between two commands; the core disconnects the
\* session after the event.
tls_timeout_ev(env) ==
  /\ CmdReady
  /\ UNCHANGED <<pc, cfgVars, tls_flags, authenticated, tls_sscn_mode,
                 rfc2228_mech, reply, last_cmd, n_ssl, ctrl_sess, strm_fd,
                 data, keyVars, ocspVars, auxVars, sniVars>>
  /\ LET w1 == IF ctrl_ssl # NULL /\ "ON_CTRL" \in tls_flags
               THEN [tls_end_sess(World, ctrl_ssl, "ctrl", FALSE, env)
                       EXCEPT !.notes["ctrl_rd"] = NULL,
                              !.notes["ctrl_wr"] = NULL,
                              !.ctrl_ssl = NULL]
               ELSE World
     IN SetWorld(Disconnect(w1, "TIMEOUT"))

(***************************************************************************)
(* The initial state: the declarations of the module's globals, a session  *)
(* process that has just accepted the control connection, a daemon that    *)
(* has not yet initialised its SSL_CTX.                                    *)
(***************************************************************************)
SessStart ==
  /\ pc = "preinit"
  /\ tls_engine = FALSE
  /\ tls_flags = {}
  /\ tls_opts = {}
  /\ tls_required_on_ctrl = 0
  /\ tls_required_on_data = 0
  /\ tls_required_on_auth = 0
  /\ have_certs = FALSE
  /\ tls_renegotiate = "off"
  /\ rfc2228_mech = "NULL"
  /\ authenticated = FALSE
  /\ tls_sscn_mode = TLS_SSCN_MODE_SERVER
  /\ tls_ctrl_ticket_appdatasz = 0
  /\ tls_ctrl_ticket_appdata_len = 0
  /\ ctrl_ssl = NULL
  /\ ctrl_sess = NoSess
  /\ n_ssl = 0
  /\ ssl_st = [i \in SslIds |-> "none"]
  /\ ssl_sent = [i \in SslIds |-> FALSE]
  /\ notes = [st \in Streams |-> NULL]
  /\ strm_fd = [st \in Streams |-> ConnOf(st) = "ctrl"]
  /\ wire = [c \in Conns |-> <<>>]
  /\ data = NoData
  /\ reply = NoReply
  /\ disc = "none"
  /\ uaf = FALSE
  /\ last_cmd = NoCmd
  /\ peeked = FALSE
  /\ end_bidi = FALSE
  /\ session_notes = NoNotes
  /\ ssl_servername = NoName
  /\ sni_vh = NoVh

KeysStart ==
  /\ now = 0
  /\ have_keyset = FALSE
  /\ tls_ticket_keys = <<>>
  /\ tls_ticket_key_curr_count = 0
  /\ tls_ticket_key_max_age = TLS_DEFAULT_TICKET_KEY_MAX_AGE
  /\ tls_ticket_key_max_count = TLS_DEFAULT_TICKET_KEY_MAX_COUNT
  /\ timers = <<>>
  /\ n_init = 0
  /\ last_add = "none"
  /\ last_evicted = -1

\* An absent cache entry, and the record of a handshake that staples nothing.
NoResp == [status |-> "none", this_update |-> 0, next_update |-> 0,
           resp_age |-> 0]
NoStaple == [res |-> "none", origin |-> "none", stale |-> FALSE,
             must_staple |-> FALSE, unreachable |-> FALSE]

OcspStart ==
  /\ ocsp_now = 0
  /\ tls_stapling = FALSE
  /\ tls_stapling_opts = {}
  /\ tls_stapling_responder = FALSE
  /\ tls_ocsp_cache = FALSE
  /\ stapling_directive = "none"
  /\ ocsp_cached = NoResp
  /\ stapled = NoStaple

\* tls_tmp_dhs = NULL (an array without elements is treated alike)
NoDhRet == [called |-> FALSE, keylen |-> 0, pkeylen |-> 0, bits |-> 0,
            builtin |-> FALSE]

DhStart ==
  /\ dh_pc = "config"
  /\ tls_tmp_dhs = <<>>
  /\ opt_allow_weak_dh = FALSE
  /\ dh_ret = NoDhRet

\* a buffer that tls_get_page has not handed out
NoPage == [st |-> "none", zero |-> TRUE, locked |-> FALSE]

\* no call of tls_lookup_pkey yet
NoLookup == [sid |-> 0, scrub |-> FALSE, list |-> <<>>]

PkeyStart ==
  /\ pk_pc = "daemon"
  /\ tls_pkey_list = <<>>
  /\ pk_pages = [p \in 1..MaxPkeys |-> NoPage]
  /\ pk_lookup = NoLookup

NoCert == <<>>

CertStart ==
  /\ cert_pc = "config"
  /\ verify_client = 0
  /\ cert_no_reuse = FALSE
  /\ cert_have_ccc = FALSE
  /\ ctrl_cert = NoCert
  /\ data_cert = NoCert
  /\ cert_role = "none"
  /\ cert_res = "none"

NoHello == [conn |-> "none", by_client |-> FALSE]

RenegStart ==
  /\ rn_pc = "config"
  /\ rn_allow = FALSE
  /\ rn_ctrl_timeout = FALSE
  /\ rn_data_limit = FALSE
  /\ rn_flags = {}
  /\ tls_ctrl_need_init_handshake = TRUE
  /\ tls_data_need_init_handshake = TRUE
  /\ rn_ctrl = "none"
  /\ rn_data = "none"
  /\ rn_hello = NoHello
  /\ rn_disc = "none"

HsStart ==
  /\ hs_pc = "config"
  /\ hs_n = 0
  /\ hs_conn = "ctrl"
  /\ hs_res = 0
  /\ hs_tries = 0
  /\ hs_timers = <<>>
  /\ tls_handshake_timer_id = -1
  /\ tls_handshake_timeout = TLS_DEFAULT_HANDSHAKE_TIMEOUT
  /\ tls_handshake_timed_out = FALSE
  /\ timed_out_by = 0
  /\ ctx_cache_mode = "SERVER"
  /\ hs_cache_mode = "SERVER"

\* no call of tls_ticket_key_cb in the step just taken
NoTicketRet == [mode |-> -1, name |-> -1, version |-> "none",
                conn |-> "none", res |-> 0, key |-> -1, newest |-> -1]

Init == SessStart /\ KeysStart /\ OcspStart /\ DhStart /\ PkeyStart /\ ticket_ret = NoTicketRet
        /\ HsStart /\ CertStart /\ RenegStart

vars == <<sessVars, keyVars, ocspVars, auxVars>>

\* The core flushes the pending reply when the command's handlers are done.
Flush ==
  /\ pc = "active" /\ disc = "none" /\ ~uaf
  /\ last_cmd # NoCmd
  /\ last_cmd' = NoCmd
  /\ reply' = NoReply
  /\ UNCHANGED <<pc, cfgVars, tls_flags, authenticated, tls_sscn_mode,
                 rfc2228_mech, ioVars, keyVars, ocspVars, auxVars, sniVars>>

(***************************************************************************)
(* One FTP session.                                                        *)
(***************************************************************************)
Next ==
  \/ SessInit(SessConfigs, CtrlHs)
  \/ Flush
  \/ \E arg \in AuthArgs : tls_auth(arg, CtrlHs)
  \/ \E limit_ok \in BOOLEAN : tls_ccc(limit_ok)
  \/ tls_pbsz
  \/ \E arg \in ProtArgs, limit_ok \in BOOLEAN : tls_prot(arg, limit_ok)
  \/ \E arg \in SscnArgs, limit_ok \in BOOLEAN : tls_sscn(arg, limit_ok)
  \/ \E cmd \in LoginCmds : tls_any_login(cmd)
  \/ \E login_ok \in BOOLEAN, found \in UserRequired :
       tls_post_pass(login_ok, found)
  \/ \E cmd \in XferCmds : tls_netio_postopen_cb(cmd)
  \/ \E strm \in DataStreams, crossed \in BOOLEAN :
       tls_netio_io_cb(strm, crossed)
  \/ \E strm \in Streams, how \in {0, 1, 2} : tls_netio_shutdown_cb(strm, how)
  \/ \E strm \in Streams, env \in UniEnvs : tls_netio_close_cb(strm, env)
  \/ \E can \in BOOLEAN : tls_ctrl_renegotiate_cb(can)
  \/ \E cd \in BOOLEAN, dd \in BOOLEAN, env \in UniEnvs :
       tls_renegotiate_timeout_cb(cd, dd, env)
  \/ \E env \in UniEnvs : tls_timeout_ev(env)

Spec == Init /\ [][Next]_vars

(***************************************************************************)
(* One FTP session up to its AUTH, with HOST commands and with handshakes  *)
(* that carry a server_name.                                               *)
(***************************************************************************)
\* The HOST command: the core stores the name in the session notes as
\* "mod_core.host" (this module declines HOST in tls_any).
core_host(name) ==
  /\ CmdReady /\ ~authenticated
  /\ last_cmd' = [name |-> "HOST", arg |-> name]
  /\ session_notes' = [session_notes EXCEPT !.host = name]
  /\ reply' = NoReply
  /\ UNCHANGED <<pc, cfgVars, tls_flags, authenticated, tls_sscn_mode,
                 rfc2228_mech, ioVars, keyVars, ocspVars, auxVars, ssl_servername,
                 sni_vh>>

NextSni ==
  \/ SessInit(SniConfigs, SniHs)
  \/ Flush
  \/ \E name \in Names : core_host(name)
  \/ \E arg \in {"TLS", "TLS-P", "FOO"} : tls_auth(arg, SniHs)
  \/ \E limit_ok \in BOOLEAN : tls_ccc(limit_ok)

SpecSni == Init /\ [][NextSni]_vars

(***************************************************************************)
(* The session ticket key ring of the daemon.  A key is represented by its *)
(* creation time; the ring is the list of the set tls_ticket_keys, which   *)
(* the set keeps ordered by time, newest first.                            *)
(***************************************************************************)
\* tls_ticket_key_cmp(k1, k2)
tls_ticket_key_cmp(k1, k2) == IF k1 = k2 THEN 0 ELSE IF k1 < k2 THEN -1 ELSE 1

\* the ring as the helpers below pass it on: set says that tls_ticket_keys is
\* not NULL, keys is its list, count is tls_ticket_key_curr_count
Ring == [set |-> have_keyset, keys |-> tls_ticket_keys,
         count |-> tls_ticket_key_curr_count]

\* xaset_insert_sort(tls_ticket_keys, k, FALSE): -1 without a set or when a
\* member compares equal to k, else k goes in front of the first older key.
xaset_insert_sort(r, k) ==
  IF ~r.set \/ \E i \in DOMAIN r.keys : tls_ticket_key_cmp(k, r.keys[i]) = 0
  THEN [res |-> -1, keys |-> r.keys]
  ELSE LET newer == SelectSeq(r.keys, LAMBDA c : tls_ticket_key_cmp(k, c) < 0)
           older == SelectSeq(r.keys, LAMBDA c : tls_ticket_key_cmp(k, c) > 0)
       IN [res |-> 0, keys |-> newer \o <<k>> \o older]

\* (variant: the sweep removes nothing)
remove_expired_ticket_keys_none(r, max_age, t) == r

\* (variant: the sweep stops at the first key it removes)
remove_expired_ticket_keys_one(r, max_age, t) ==
  IF r.count < 2 THEN r
  ELSE LET old == {i \in DOMAIN r.keys : t - r.keys[i] > max_age} IN
       IF old = {} THEN r
       ELSE LET i == CHOOSE x \in old : \A y \in old : x <= y IN
            [r EXCEPT !.keys = SubSeq(r.keys, 1, i - 1)
                                 \o SubSeq(r.keys, i + 1, Len(r.keys)),
                      !.count = r.count - 1]

\* remove_expired_ticket_keys() at time t
remove_expired_ticket_keys(r, max_age, t) ==
  IF r.count < 2 THEN r
  ELSE LET kept == SelectSeq(r.keys, LAMBDA c : ~(t - c > max_age))
       IN [r EXCEPT !.keys = kept,
                    !.count = r.count - (Len(r.keys) - Len(kept))]

\* (variant: the first key of the list goes)
remove_oldest_ticket_key_first(r) ==
  IF r.count < 2 THEN [res |-> 0, r |-> r]
  ELSE IF Len(r.keys) = 0 THEN [res |-> -1, r |-> r]
  ELSE [res |-> 0,
        r |-> [r EXCEPT !.keys = SubSeq(r.keys, 2, Len(r.keys)),
                        !.count = r.count - 1]]

\* remove_oldest_ticket_key(): the last key of the list goes
remove_oldest_ticket_key(r) ==
  IF r.count < 2 THEN [res |-> 0, r |-> r]
  ELSE IF Len(r.keys) = 0 THEN [res |-> -1, r |-> r]
  ELSE [res |-> 0,
        r |-> [r EXCEPT !.keys = SubSeq(r.keys, 1, Len(r.keys) - 1),
                        !.count = r.count - 1]]

\* (variant: the admission gives up once the sweep has removed a key)
add_ticket_key_giveup(r, k, max_age, max_count, t) ==
  LET r1 == remove_expired_ticket_keys(r, max_age, t)
      o == IF r1.count = max_count THEN remove_oldest_ticket_key(r1)
           ELSE [res |-> 0, r |-> r1]
      ins == xaset_insert_sort(o.r, k)
  IN IF o.res < 0 \/ r1.count < r.count THEN r1
     ELSE IF ins.res = 0
     THEN [o.r EXCEPT !.keys = ins.keys, !.count = o.r.count + 1]
     ELSE o.r

\* add_ticket_key(k) at time t
add_ticket_key(r, k, max_age, max_count, t) ==
  LET r1 == remove_expired_ticket_keys(r, max_age, t)
      o == IF r1.count = max_count THEN remove_oldest_ticket_key(r1)
           ELSE [res |-> 0, r |-> r1]
      ins == xaset_insert_sort(o.r, k)
  IN IF o.res < 0 THEN r1
     ELSE IF ins.res = 0
     THEN [o.r EXCEPT !.keys = ins.keys, !.count = o.r.count + 1]
     ELSE o.r

SetRing(r) ==
  /\ have_keyset' = r.set
  /\ tls_ticket_keys' = r.keys
  /\ tls_ticket_key_curr_count' = r.count

\* add_ticket_key(): the key that remove_oldest_ticket_key takes from the
\* ring that the sweep has left (-1: none)
Evicted(r, max_age, max_count, t) ==
  LET r1 == remove_expired_ticket_keys(r, max_age, t)
      o == IF r1.count = max_count THEN remove_oldest_ticket_key(r1)
           ELSE [res |-> 0, r |-> r1]
      gone == {r1.keys[i] : i \in DOMAIN r1.keys}
                \ {o.r.keys[i] : i \in DOMAIN o.r.keys}
  IN IF gone = {} THEN -1 ELSE CHOOSE c \in gone : TRUE

\* whether the admission just made found at least two keys to sweep
Admitted(r) == IF r.count < 2 THEN "unswept" ELSE "swept"

\* The TLSSessionTicketKeys directives of the server configuration
\* (present is FALSE when there is none).
TicketKeyCfgs ==
  [present : {TRUE}, age : {TLS_MIN_TICKET_KEY_MAX_AGE, 90}, count : {2, 3}]
    \cup {[present |-> FALSE, age |-> 0, count |-> 0]}

\* tls_init_ctx(main_server) at the start of the daemon and at each restart:
\* the ticket key part.  created says that create_ticket_key() returned a key.
tls_init_ctx(cfg, created) ==
  /\ n_init < MaxInit
  /\ n_init' = n_init + 1
  /\ LET max_age == IF cfg.present THEN cfg.age ELSE tls_ticket_key_max_age
         max_count == IF cfg.present THEN cfg.count
                      ELSE tls_ticket_key_max_count
         intvl == IF max_age < TLS_NEW_TICKET_KEY_INTVL THEN max_age - 1
                  ELSE TLS_NEW_TICKET_KEY_INTVL
     IN /\ tls_ticket_key_max_age' = max_age
        /\ tls_ticket_key_max_count' = max_count
        /\ IF ~have_keyset
           THEN /\ IF created
                   THEN /\ SetRing(add_ticket_key([Ring EXCEPT !.set = TRUE],
                                     now, max_age, max_count, now))
                        /\ last_add' = Admitted(Ring)
                        /\ last_evicted' = Evicted(Ring, max_age, max_count,
                                                 now)
                   ELSE /\ UNCHANGED <<have_keyset, tls_ticket_keys,
                                       tls_ticket_key_curr_count>>
                        /\ last_add' = "none"
                        /\ last_evicted' = -1
                /\ timers' = Append(timers, [due |-> now + intvl,
                                             intvl |-> intvl])
           ELSE /\ IF created
                   THEN /\ SetRing(add_ticket_key(Ring, now, max_age,
                                                  max_count, now))
                        /\ last_add' = Admitted(Ring)
                        /\ last_evicted' = Evicted(Ring, max_age, max_count,
                                                 now)
                   ELSE /\ UNCHANGED <<have_keyset, tls_ticket_keys,
                                       tls_ticket_key_curr_count>>
                        /\ last_add' = "none"
                        /\ last_evicted' = -1
                /\ UNCHANGED timers
  /\ ticket_ret' = NoTicketRet
  /\ UNCHANGED <<now, sessVars, renegVars, certVars, ocspVars, dhVars, pkeyVars,
                 hsVars>>

\* new_ticket_key_timer_cb(): timer i is due; it is always restarted.
new_ticket_key_timer_cb(i, created) ==
  /\ i \in DOMAIN timers
  /\ timers[i].due <= now
  /\ timers' = [timers EXCEPT ![i].due = now + timers[i].intvl]
  /\ IF created
     THEN /\ SetRing(add_ticket_key(Ring, now, tls_ticket_key_max_age,
                                    tls_ticket_key_max_count, now))
          /\ last_add' = IF have_keyset THEN Admitted(Ring) ELSE "none"
          /\ last_evicted' = Evicted(Ring, tls_ticket_key_max_age,
                                   tls_ticket_key_max_count, now)
     ELSE /\ UNCHANGED <<have_keyset, tls_ticket_keys,
                         tls_ticket_key_curr_count>>
          /\ last_add' = "none"
          /\ last_evicted' = -1
  /\ ticket_ret' = NoTicketRet
  /\ UNCHANGED <<now, tls_ticket_key_max_age, tls_ticket_key_max_count,
                 n_init, sessVars, renegVars, certVars, ocspVars, dhVars, pkeyVars,
                 hsVars>>

\* Time passes in the daemon, up to the next deadline of a timer.
Tick ==
  /\ now < MaxTime
  /\ \A i \in DOMAIN timers : timers[i].due > now
  /\ LET limits == {now + TickStep, MaxTime}
                     \cup {timers[i].due : i \in DOMAIN timers}
     IN now' = CHOOSE t \in limits : \A u \in limits : t <= u
  /\ last_add' = "none"
  /\ last_evicted' = -1
  /\ ticket_ret' = NoTicketRet
  /\ UNCHANGED <<have_keyset, tls_ticket_keys, tls_ticket_key_curr_count,
                 tls_ticket_key_max_age, tls_ticket_key_max_count, timers,
                 n_init, sessVars, renegVars, certVars, ocspVars, dhVars, pkeyVars,
                 hsVars>>

NextKeys ==
  \/ \E cfg \in TicketKeyCfgs, created \in BOOLEAN : tls_init_ctx(cfg, created)
  \/ \E i \in 1..MaxInit, created \in BOOLEAN :
       new_ticket_key_timer_cb(i, created)
  \/ Tick

SpecKeys == Init /\ [][NextKeys]_vars

\* get_ticket_key(): the key of the ring with the given name (the model
\* names a key by its creation time), or -1 for NULL
get_ticket_key(r, name) ==
  IF r.set /\ \E i \in DOMAIN r.keys : r.keys[i] = name THEN name ELSE -1

\* (variant: a new ticket is encrypted with the last key of the list)
tls_ticket_key_cb_last(r, mode, name, version) ==
  IF mode = 1
  THEN IF ~r.set THEN [res |-> -1, key |-> -1]
       ELSE IF Len(r.keys) = 0 THEN [res |-> -2, key |-> -1]
       ELSE [res |-> 1, key |-> r.keys[Len(r.keys)]]
  ELSE LET k == get_ticket_key(r, name) IN
       IF k = -1 THEN [res |-> 0, key |-> -1]
       ELSE IF version = "TLSv1.3" THEN [res |-> 2, key |-> k]
       ELSE [res |-> 1, key |-> k]

\* tls_ticket_key_cb() for a handshake of the given protocol version: mode 1
\* encrypts a new ticket, mode 0 decrypts the ticket that names a key.  The
\* result is what the callback returns and the key it initialised the
\* cipher with (-1: none); -2 stands for the dereference of a NULL head.
tls_ticket_key_cb(r, mode, name, version) ==
  IF mode = 1
  THEN IF ~r.set THEN [res |-> -1, key |-> -1]
       ELSE IF Len(r.keys) = 0 THEN [res |-> -2, key |-> -1]
       ELSE [res |-> 1, key |-> r.keys[1]]
  ELSE LET k == get_ticket_key(r, name) IN
       IF k = -1 THEN [res |-> 0, key |-> -1]
       ELSE IF version = "TLSv1.3" THEN [res |-> 2, key |-> k]
       ELSE [res |-> 1, key |-> k]

\* the key names that a ticket presents: those of the ring and an unknown one
TicketNames == {tls_ticket_keys[i] : i \in DOMAIN tls_ticket_keys} \cup {-1}

\* the greatest creation time of the ring (-1: no key)
NewestCreated ==
  IF tls_ticket_keys = <<>> THEN -1
  ELSE LET cs == {tls_ticket_keys[i] : i \in DOMAIN tls_ticket_keys}
       IN CHOOSE c \in cs : \A d \in cs : d <= c

\* A handshake on the connection conn issues a ticket (mode 1) or presents
\* one (mode 0): the library calls tls_ticket_key_cb.
TicketHandshake(mode, name, version, conn) ==
  /\ mode = 1 => name = -1
  /\ LET r == tls_ticket_key_cb(Ring, mode, name, version) IN
       ticket_ret' = [mode |-> mode, name |-> name, version |-> version,
                      conn |-> conn, res |-> r.res, key |-> r.key,
                      newest |-> NewestCreated]
  /\ UNCHANGED <<sessVars, renegVars, certVars, keyVars, ocspVars, dhVars, pkeyVars, hsVars>>

\* the TLSSessionTicketKeys directives of the runs with handshakes
TicketCbCfgs ==
  {c \in TicketKeyCfgs : c.present /\ c.age = TLS_MIN_TICKET_KEY_MAX_AGE}

NextTickets ==
  \/ \E cfg \in TicketCbCfgs, created \in BOOLEAN : tls_init_ctx(cfg, created)
  \/ \E i \in 1..MaxInit, created \in BOOLEAN :
       new_ticket_key_timer_cb(i, created)
  \/ Tick
  \/ \E mode \in {0, 1}, name \in TicketNames, version \in Protos,
        conn \in Conns : TicketHandshake(mode, name, version, conn)

SpecTickets == Init /\ [][NextTickets]_vars

(***************************************************************************)
(* OCSP stapling.  One server certificate, hence one fingerprint and one   *)
(* cache entry.  A response is the record of what the staleness test reads *)
(* of it: its response status, thisUpdate and nextUpdate of the            *)
(* certificate's status (NoNextUpdate when the responder gave none), and   *)
(* resp_age, the time at which the cache took it.  The issuing certificate *)
(* is taken to be found whenever it is looked for.                         *)
(***************************************************************************)
NoNextUpdate == 0 - 1

\* X509_cmp_time(t, &cmp) < 0: t is not later than cmp
X509_cmp_time_lt0(t, cmp) == t <= cmp

\* ocsp_stale_response: [stale, expired] of a response of the given cache age
ocsp_stale_response(resp, age, t) ==
  IF resp.status = "successful"
  THEN IF resp.next_update # NoNextUpdate
       THEN IF X509_cmp_time_lt0(resp.next_update, t)
            THEN [stale |-> TRUE, expired |-> TRUE]
            ELSE LET validity_secs == resp.next_update - resp.this_update
                     refresh_ts == t - (validity_secs \div 2)
                 IN [stale |-> X509_cmp_time_lt0(resp.this_update, refresh_ts),
                     expired |-> FALSE]
       ELSE [stale |-> age > OCSP_STALE_NO_NEXT_UPDATE, expired |-> FALSE]
  ELSE [stale |-> age > OCSP_STALE_UNSUCCESSFUL, expired |-> FALSE]

\* ocsp_get_cached_response: the response found (NoResp when none), whether it
\* is stale, errno, and the cache it leaves.  get_ok: the cache's get works.
ocsp_get_cached_response(get_ok) ==
  IF ~tls_ocsp_cache
  THEN [resp |-> NoResp, stale |-> FALSE, errno |-> "ENOSYS",
        cache |-> ocsp_cached]
  ELSE IF ocsp_cached = NoResp \/ ~get_ok
  THEN [resp |-> NoResp, stale |-> FALSE,
        errno |-> IF get_ok THEN "ENOENT" ELSE "EPERM", cache |-> ocsp_cached]
  ELSE LET cache_age == ocsp_now - ocsp_cached.resp_age
           st == ocsp_stale_response(ocsp_cached, cache_age, ocsp_now)
       IN IF st.expired
          THEN [resp |-> NoResp, stale |-> FALSE, errno |-> "ENOENT",
                cache |-> NoResp]
          ELSE [resp |-> ocsp_cached, stale |-> st.stale, errno |-> "none",
                cache |-> ocsp_cached]

\* ocsp_add_cached_response: the cache after adding resp at the current time
\* (the provider's add is taken to succeed)
ocsp_add_cached_response(cache, resp) ==
  IF tls_ocsp_cache
  THEN [resp EXCEPT !.resp_age = ocsp_now]
  ELSE cache

\* what ocsp_request_response can bring back: nothing, or a successful
\* response that passed OCSP_check_validity, with or without a nextUpdate,
\* whose thisUpdate lies `behind' seconds in the past
NoFetch == [ok |-> FALSE, next |-> FALSE, behind |-> 0]
FetchOutcomes ==
  {NoFetch} \cup [ok : {TRUE}, next : BOOLEAN, behind : {0, 2 * OcspTickStep}]

FreshResp(f) ==
  [status |-> "successful",
   this_update |-> ocsp_now - f.behind,
   next_update |-> IF f.next THEN ocsp_now - f.behind + OcspValidity
                   ELSE NoNextUpdate,
   resp_age |-> ocsp_now]

FakeTryLater ==
  [status |-> "trylater", this_update |-> 0, next_update |-> NoNextUpdate,
   resp_age |-> ocsp_now]

\* what one handshake meets: cert (the SSL has a certificate and a
\* fingerprint), get_ok (the cache provider's get works), cert_url (the
\* certificate names an OCSP responder), must_staple, and the fetch outcome;
\* without a certificate the rest is not looked at
OcspEnvs ==
  {e \in [cert : BOOLEAN, get_ok : BOOLEAN, cert_url : BOOLEAN,
          must_staple : BOOLEAN, fetch : FetchOutcomes] :
     ~e.cert => e.get_ok /\ ~e.cert_url /\ ~e.must_staple /\ e.fetch = NoFetch}

\* ocsp_get_response: the response returned (NoResp for NULL), where it came
\* from, whether the cache called it stale, and the cache afterwards
ocsp_get_response(env) ==
  LET c == IF ~env.cert
           THEN [resp |-> NoResp, stale |-> FALSE, errno |-> "none",
                 cache |-> ocsp_cached]
           ELSE IF tls_ocsp_cache
           THEN ocsp_get_cached_response(env.get_ok)
           ELSE [resp |-> NoResp, stale |-> FALSE, errno |-> "ENOENT",
                 cache |-> ocsp_cached]
      ask == /\ env.cert
             /\ c.resp = NoResp \/ c.stale
             /\ c.errno = "ENOENT" \/ c.stale
             /\ tls_stapling_responder \/ env.cert_url
      fresh == ask /\ env.fetch.ok
      use_fake_trylater ==
        /\ ~fresh
        /\ c.resp = NoResp
        /\ \/ "NoFakeTryLater" \notin tls_stapling_opts
           \/ env.cert /\ env.must_staple
      resp == IF fresh THEN FreshResp(env.fetch)
              ELSE IF use_fake_trylater THEN FakeTryLater
              ELSE c.resp
      origin == IF fresh THEN "fresh"
                ELSE IF use_fake_trylater THEN "fake"
                ELSE IF resp # NoResp THEN "cache"
                ELSE "none"
      deleted == IF fresh /\ c.stale THEN NoResp ELSE c.cache
  IN [resp |-> resp, origin |-> origin,
      stale |-> origin = "cache" /\ c.stale,
      asked |-> ask,
      cache |-> IF origin \in {"fresh", "fake"} /\ env.cert
                THEN ocsp_add_cached_response(deleted, resp)
                ELSE deleted]

\* tls_ocsp_cb: the status callback of a handshake; reused says the session
\* is a resumed one
tls_ocsp_cb(reused, env) ==
  /\ IF ~tls_stapling \/ reused
     THEN /\ stapled' = [NoStaple EXCEPT !.res = "NOACK"]
          /\ UNCHANGED ocsp_cached
     ELSE LET r == ocsp_get_response(env)
          IN /\ ocsp_cached' = r.cache
             /\ stapled' =
                  [res |-> IF r.resp = NoResp THEN "NOACK" ELSE "OK",
                   origin |-> r.origin, stale |-> r.stale,
                   must_staple |-> env.cert /\ env.must_staple,
                   unreachable |-> r.asked /\ ~env.fetch.ok]
  /\ UNCHANGED <<ocsp_now, tls_stapling, tls_stapling_opts,
                 tls_stapling_responder, tls_ocsp_cache, stapling_directive,
                 sessVars, keyVars, auxVars>>

\* tls_ctx_set_stapling_cache: the TLSStaplingCache directive at (re)start;
\* found: the provider is registered, open_ok: its open succeeds
tls_ctx_set_stapling_cache(directive, found, open_ok) ==
  /\ tls_ocsp_cache' = IF directive THEN found /\ open_ok ELSE tls_ocsp_cache
  /\ stapled' = NoStaple
  /\ stapling_directive' = "none"
  /\ UNCHANGED <<ocsp_now, tls_stapling, tls_stapling_opts,
                 tls_stapling_responder, ocsp_cached, sessVars, keyVars, auxVars>>

\* tls_lookup_stapling (run by tls_sess_init through tls_lookup_all): the
\* stapling directives of the session's host; directive is TLSStapling:
\* "absent", "on" or "off"
tls_lookup_stapling(opts, responder, directive) ==
  /\ tls_stapling_opts' = opts
  /\ tls_stapling_responder' = responder
  /\ tls_stapling' = IF directive # "absent" THEN directive = "on" ELSE FALSE
  /\ stapled' = NoStaple
  /\ stapling_directive' = directive
  /\ UNCHANGED <<ocsp_now, tls_ocsp_cache, ocsp_cached, sessVars, keyVars, auxVars>>

OcspTick ==
  /\ ocsp_now + OcspTickStep <= OcspMaxTime
  /\ ocsp_now' = ocsp_now + OcspTickStep
  /\ UNCHANGED <<tls_stapling, tls_stapling_opts, tls_stapling_responder,
                 tls_ocsp_cache, ocsp_cached, stapled, stapling_directive,
                 sessVars, keyVars, auxVars>>

NextOcsp ==
  \/ \E directive \in BOOLEAN, found \in BOOLEAN, open_ok \in BOOLEAN :
       tls_ctx_set_stapling_cache(directive, found, open_ok)
  \/ \E opts \in SUBSET {"NoFakeTryLater"}, responder \in BOOLEAN,
        directive \in {"absent", "on", "off"} :
       tls_lookup_stapling(opts, responder, directive)
  \/ \E reused \in BOOLEAN, env \in OcspEnvs : tls_ocsp_cb(reused, env)
  \/ OcspTick

SpecOcsp == Init /\ [][NextOcsp]_vars

(***************************************************************************)
(* The Diffie-Hellman parameters of a session.  A DH parameter is          *)
(* represented by its length in bits (DH_size() * 8).                      *)
(***************************************************************************)
\* the lengths of the parameters that a TLSDHParamFile holds
DhFileLens == {1024, 1536, 2048, 4096}

\* the keylen that the library hands to the callback
DhKeylens == {512, 1024, 2048}

\* SSL_get_privatekey(): the private key of the connection's certificate,
\* its type and EVP_PKEY_bits()
DhPkeys ==
  {[type |-> "none", bits |-> 0]} \cup
  [type : {"RSA", "DSA", "EC"}, bits : {1024, 2048, 8192}] \cup
  {[type |-> "EC", bits |-> 256]}

\* the lengths for which the module has built-in parameters
BuiltinDhLens == {512, 768, 1024, 1536, 2048, 3072, 4096}

\* tls_lookup_dh_params(): the parameters of the TLSDHParamFile files, in
\* the order of the files, are pushed to tls_tmp_dhs.  The options of
\* TLSOptions are in force by then.
tls_lookup_dh_params(files, weak) ==
  /\ dh_pc = "config"
  /\ dh_pc' = "running"
  /\ tls_tmp_dhs' = files
  /\ opt_allow_weak_dh' = weak
  /\ UNCHANGED <<dh_ret, sessVars, renegVars, certVars, keyVars, ocspVars, pkeyVars, tkVars, hsVars>>

\* tls_dh_cb(): one pass of a search loop from element i on.  best is the
\* length of best_dh (0: NULL).  The result is [hit, best]: hit is the
\* length of the element that matches len exactly (0: none).
RECURSIVE DhSearch(_, _, _, _)
DhSearch(dhs, i, len, best) ==
  IF i > Len(dhs) THEN [hit |-> 0, best |-> best]
  ELSE IF dhs[i] = len THEN [hit |-> dhs[i], best |-> best]
  ELSE IF dhs[i] > len /\ (best = 0 \/ dhs[i] < best)
       THEN DhSearch(dhs, i + 1, len, dhs[i])
  ELSE DhSearch(dhs, i + 1, len, best)

\* tls_dh_cb(): the switch over the built-in parameters
DhBuiltin(keylen) ==
  IF keylen \in BuiltinDhLens THEN keylen ELSE 1024

\* tls_dh_cb(): the DH parameters for a handshake that asks for keylen bits
\* with the private key pkey, as [bits, builtin, pkeylen, dhs]: the length
\* of what is returned, whether it is a built-in parameter, the adjusted
\* length of the private key and the array afterwards.
tls_dh_cb(keylen, pkey, weak, dhs) ==
  LET sized == pkey.type \in {"RSA", "DSA"}
      pkeylen == IF sized /\ pkey.bits < TLS_DH_MIN_LEN /\ ~weak
                 THEN TLS_DH_MIN_LEN
                 ELSE IF sized THEN pkey.bits ELSE 0
      use_pkeylen == sized /\ pkeylen # keylen
      s1 == DhSearch(dhs, 1, keylen, 0)
      s2 == DhSearch(dhs, 1, pkeylen, s1.best)
      min_keylen == IF keylen < TLS_DH_MIN_LEN /\ ~weak
                    THEN TLS_DH_MIN_LEN ELSE keylen
      dh == DhBuiltin(IF use_pkeylen THEN pkeylen ELSE min_keylen)
      found(bits) == [bits |-> bits, builtin |-> FALSE, pkeylen |-> pkeylen,
                      dhs |-> dhs]
  IN IF Len(dhs) > 0 /\ s1.hit # 0 THEN found(s1.hit)
     ELSE IF Len(dhs) > 0 /\ s2.hit # 0 THEN found(s2.hit)
     ELSE IF Len(dhs) > 0 /\ s2.best # 0 THEN found(s2.best)
     ELSE [bits |-> dh, builtin |-> TRUE, pkeylen |-> pkeylen,
           dhs |-> Append(dhs, dh)]

\* A handshake with an ephemeral DH key exchange calls tls_dh_cb.
DhHandshake(keylen, pkey) ==
  /\ dh_pc = "running"
  /\ Len(tls_tmp_dhs) < MaxDhs
  /\ LET r == tls_dh_cb(keylen, pkey, opt_allow_weak_dh, tls_tmp_dhs) IN
       /\ tls_tmp_dhs' = r.dhs
       /\ dh_ret' = [called |-> TRUE, keylen |-> keylen,
                     pkeylen |-> r.pkeylen, bits |-> r.bits,
                     builtin |-> r.builtin]
  /\ UNCHANGED <<dh_pc, opt_allow_weak_dh, sessVars, renegVars, certVars, keyVars, ocspVars,
                 pkeyVars, tkVars, hsVars>>

\* the arrays that the TLSDHParamFile files of a virtual host produce
DhFiles ==
  {<<>>} \cup {<<a>> : a \in DhFileLens}
         \cup {<<a, b>> : a \in DhFileLens, b \in DhFileLens}

NextDh ==
  \/ \E files \in DhFiles, weak \in BOOLEAN : tls_lookup_dh_params(files, weak)
  \/ \E keylen \in DhKeylens, pkey \in DhPkeys : DhHandshake(keylen, pkey)

SpecDh == Init /\ [][NextDh]_vars

(***************************************************************************)
(* The stored passphrases.  A tls_pkey_t is represented by the id of the    *)
(* virtual host, the length of the passphrase and the buffer that holds it *)
(* (rsa_pkey, dsa_pkey, ec_pkey or pkcs12_passwd; 0: NULL).  A buffer is    *)
(* allocated, zeroed or not, locked into memory or not, and freed or not.  *)
(***************************************************************************)
PkeySids == {1, 2}

PkeyPasslens == {0, 8}

\* tls_scrub_pkey(): the buffer of k is scrubbed and freed.  Nothing
\* unlocks it: locked stays what it was.
tls_scrub_pkey(pages, k) ==
  IF k.page # 0
  THEN [pages EXCEPT ![k.page] = [st |-> "freed", zero |-> TRUE,
                                  locked |-> @.locked]]
  ELSE pages

\* tls_scrub_pkey(): the fields of k afterwards
ScrubbedPkey == [sid |-> 0, passlen |-> 0, page |-> 0]

\* the loops over the list: the records from i on are scrubbed, up to the
\* first one of the virtual host sid (0: none is spared)
RECURSIVE ScrubFrom(_, _, _, _)
ScrubFrom(pages, list, i, sid) ==
  IF i > Len(list) \/ (sid # 0 /\ list[i].sid = sid) THEN pages
  ELSE ScrubFrom(tls_scrub_pkey(pages, list[i]), list, i + 1, sid)

\* tls_get_key_passphrase() and tls_get_passphrases(): the daemon reads the
\* passphrase of a virtual host into a fresh buffer of tls_get_page(), locks
\* the buffer when the passphrase is not empty (mlock_ok: mlock succeeds)
\* and puts the record at the head of the list.
tls_get_key_passphrase(sid, passlen, mlock_ok) ==
  /\ pk_pc = "daemon"
  /\ \A i \in DOMAIN tls_pkey_list : tls_pkey_list[i].sid # sid
  /\ \E p \in 1..MaxPkeys :
       /\ pk_pages[p].st = "none"
       /\ \A q \in 1..(p - 1) : pk_pages[q].st # "none"
       /\ pk_pages' = [pk_pages EXCEPT
                         ![p] = [st |-> "alloc", zero |-> passlen = 0,
                                 locked |-> passlen > 0 /\ mlock_ok]]
       /\ tls_pkey_list' = <<[sid |-> sid, passlen |-> passlen,
                              page |-> p]>> \o tls_pkey_list
  /\ UNCHANGED <<pk_pc, pk_lookup, sessVars, renegVars, certVars, keyVars, ocspVars, dhVars, tkVars, hsVars>>

\* The daemon forks the session process: the child has the list and the
\* buffers, but page locks are not inherited.
PkeyFork ==
  /\ pk_pc = "daemon"
  /\ pk_pc' = "session"
  /\ pk_pages' = [p \in 1..MaxPkeys |-> [pk_pages[p] EXCEPT !.locked = FALSE]]
  /\ UNCHANGED <<tls_pkey_list, pk_lookup, sessVars, renegVars, certVars, keyVars, ocspVars, dhVars, tkVars, hsVars>>

\* tls_lookup_pkey(): the session looks for the record of its virtual host.
\* The records before it are scrubbed when scrub_unless_match is set, and a
\* scrubbed record has its next pointer cleared; the record found has its
\* buffer locked again when lock_if_found is set.
tls_lookup_pkey(sid, lock_if_found, scrub_unless_match, mlock_ok) ==
  /\ pk_pc = "session"
  /\ tls_pkey_list # <<>>
  /\ LET found == {i \in DOMAIN tls_pkey_list : tls_pkey_list[i].sid = sid}
         k == IF found = {} THEN ScrubbedPkey
              ELSE tls_pkey_list[CHOOSE i \in found : \A j \in found : i <= j]
         p1 == IF scrub_unless_match
               THEN ScrubFrom(pk_pages, tls_pkey_list, 1, sid)
               ELSE pk_pages
     IN /\ pk_pages' =
             IF lock_if_found /\ k.page # 0 /\ k.passlen > 0 /\ mlock_ok
             THEN [p1 EXCEPT ![k.page].locked = TRUE]
             ELSE p1
        /\ tls_pkey_list' =
             IF scrub_unless_match /\ tls_pkey_list[1].sid # sid
             THEN <<ScrubbedPkey>>
             ELSE tls_pkey_list
  /\ pk_lookup' = [sid |-> sid, scrub |-> scrub_unless_match,
                   list |-> tls_pkey_list]
  /\ UNCHANGED <<pk_pc, sessVars, renegVars, certVars, keyVars, ocspVars, dhVars, tkVars, hsVars>>

\* tls_scrub_pkeys(): at the shutdown of the daemon, and in a session that
\* has no more use for the passphrases.
tls_scrub_pkeys ==
  /\ tls_pkey_list # <<>>
  /\ LET passphrase_count ==
           Cardinality({i \in DOMAIN tls_pkey_list :
                          /\ tls_pkey_list[i].page # 0
                          /\ tls_pkey_list[i].passlen > 0})
     IN pk_pages' = IF passphrase_count = 0 THEN pk_pages
                    ELSE ScrubFrom(pk_pages, tls_pkey_list, 1, 0)
  /\ tls_pkey_list' = <<>>
  /\ UNCHANGED <<pk_pc, pk_lookup, sessVars, renegVars, certVars, keyVars, ocspVars, dhVars, tkVars, hsVars>>

NextPkeys ==
  \/ \E sid \in PkeySids, passlen \in PkeyPasslens, mlock_ok \in BOOLEAN :
       tls_get_key_passphrase(sid, passlen, mlock_ok)
  \/ PkeyFork
  \/ \E sid \in PkeySids, lock_if_found \in BOOLEAN,
        scrub_unless_match \in BOOLEAN, mlock_ok \in BOOLEAN :
       /\ lock_if_found \/ scrub_unless_match
       /\ tls_lookup_pkey(sid, lock_if_found, scrub_unless_match, mlock_ok)
  \/ tls_scrub_pkeys

SpecPkeys == Init /\ [][NextPkeys]_vars

(***************************************************************************)
(* The handshake loop of tls_accept, with the handshake timer and the      *)
(* session cache mode of the SSL_CTX.  A timer is represented by the       *)
(* number of the handshake that armed it.                                  *)
(***************************************************************************)
\* the modes that tls_ctx_set_session_cache leaves in the SSL_CTX: the
\* internal cache, an external cache of TLSSessionCache, or no cache
CtxCacheModes == {"SERVER", "SERVER|NO_INTERNAL", "OFF"}

\* tls_accept(): the mode during the handshake of a data connection
data_cache_mode == "SERVER|NO_INTERNAL_STORE"

\* tls_lookup_all() and tls_ctx_set_session_cache() at the start of the
\* session: TLSTimeoutHandshake and the session cache are in force.
tls_lookup_handshake(timeout, mode) ==
  /\ hs_pc = "config"
  /\ hs_pc' = "idle"
  /\ tls_handshake_timeout' = timeout
  /\ ctx_cache_mode' = mode
  /\ hs_cache_mode' = mode
  /\ UNCHANGED <<hs_n, hs_conn, hs_res, hs_tries, hs_timers,
                 tls_handshake_timer_id, tls_handshake_timed_out,
                 timed_out_by, sessVars, renegVars, certVars, keyVars, ocspVars, dhVars, pkeyVars,
                 tkVars>>

\* tls_accept(conn, on_data) up to the label retry: the timer is armed when
\* a timeout is configured, and the handshake of a data connection switches
\* the storing of sessions off.
tls_accept_start(conn) ==
  /\ hs_pc = "idle"
  /\ hs_n < MaxHs
  /\ hs_n' = hs_n + 1
  /\ hs_pc' = "retry"
  /\ hs_conn' = conn
  /\ hs_tries' = 0
  /\ IF tls_handshake_timeout # 0
     THEN /\ tls_handshake_timed_out' = FALSE
          /\ tls_handshake_timer_id' = hs_n + 1
          /\ hs_timers' = Append(hs_timers, hs_n + 1)
     ELSE UNCHANGED <<tls_handshake_timed_out, tls_handshake_timer_id,
                      hs_timers>>
  /\ hs_cache_mode' = ctx_cache_mode
  /\ ctx_cache_mode' = IF conn = "data" /\ ctx_cache_mode # "OFF"
                       THEN data_cache_mode ELSE ctx_cache_mode
  /\ UNCHANGED <<hs_res, tls_handshake_timeout, timed_out_by, sessVars, renegVars, certVars,
                 keyVars, ocspVars, dhVars, pkeyVars, tkVars>>

\* tls_handshake_timeout_cb(): the timer that was armed first is due.  The
\* callback returns 0, so the timer is not restarted.
tls_handshake_timeout_cb ==
  /\ hs_pc # "config"
  /\ hs_timers # <<>>
  /\ tls_handshake_timed_out' = TRUE
  /\ timed_out_by' = Head(hs_timers)
  /\ hs_timers' = Tail(hs_timers)
  /\ UNCHANGED <<hs_pc, hs_n, hs_conn, hs_res, hs_tries,
                 tls_handshake_timer_id, tls_handshake_timeout,
                 ctx_cache_mode, hs_cache_mode, sessVars, renegVars, certVars, keyVars, ocspVars,
                 dhVars, pkeyVars, tkVars>>

\* tls_accept(): the test of the flag after an SSL_accept that has not
\* completed
HandshakeTimedOut == tls_handshake_timed_out

\* tls_accept() from the label retry on: one call of SSL_accept, which
\* completes ("ok"), asks for more I/O ("want") or fails ("error"), and what
\* follows it.
tls_accept_retry(outcome) ==
  /\ hs_pc = "retry"
  /\ outcome = "want" /\ ~HandshakeTimedOut => hs_tries < MaxTries
  /\ IF outcome = "ok"
     THEN /\ hs_pc' = "idle"
          /\ hs_res' = 0
          /\ ctx_cache_mode' = IF hs_conn = "data" /\ hs_cache_mode # "OFF"
                               THEN hs_cache_mode ELSE ctx_cache_mode
          /\ hs_timers' = SelectSeq(hs_timers,
                                    LAMBDA t : t # tls_handshake_timer_id)
          /\ UNCHANGED hs_tries
     ELSE IF HandshakeTimedOut
     THEN /\ hs_pc' = "idle"
          /\ hs_res' = -4
          /\ UNCHANGED <<ctx_cache_mode, hs_timers, hs_tries>>
     ELSE IF outcome = "want"
     THEN /\ hs_tries' = hs_tries + 1
          /\ UNCHANGED <<hs_pc, hs_res, ctx_cache_mode, hs_timers>>
     ELSE /\ hs_pc' = "idle"
          /\ hs_res' = -3
          /\ UNCHANGED <<ctx_cache_mode, hs_timers, hs_tries>>
  /\ UNCHANGED <<hs_n, hs_conn, tls_handshake_timer_id, tls_handshake_timeout,
                 tls_handshake_timed_out, timed_out_by, hs_cache_mode,
                 sessVars, renegVars, certVars, keyVars, ocspVars, dhVars, pkeyVars, tkVars>>

NextHs ==
  \/ \E timeout \in {0, TLS_DEFAULT_HANDSHAKE_TIMEOUT}, mode \in CtxCacheModes :
       tls_lookup_handshake(timeout, mode)
  \/ \E conn \in Conns : tls_accept_start(conn)
  \/ tls_handshake_timeout_cb
  \/ \E outcome \in {"ok", "want", "error"} : tls_accept_retry(outcome)

SpecHs == Init /\ [][NextHs]_vars

(***************************************************************************)
(* The peer certificates of the control and the data connection.           *)
(***************************************************************************)
\* certificates, as their encodings
Certs == {<<1, 1>>, <<1, 2>>, <<2>>}

\* X509_cmp() of two certificates: 0 when they are the same
X509_cmp_len(a, b) == IF Len(a) = Len(b) THEN 0 ELSE 1

X509_cmp(a, b) == IF a = b THEN 0 ELSE 1

\* SSL_get_peer_certificate(): NULL without a connection
SSL_get_peer_certificate(live, cert) == IF live THEN cert ELSE NoCert

\* what a client may present under the verify mode of tls_ssl_set_verify():
\* nothing when no certificate is requested, one when one is demanded
PeerCerts ==
  CASE verify_client = 0 -> {NoCert}
    [] verify_client = 1 -> Certs
    [] OTHER -> Certs \cup {NoCert}

\* tls_lookup_verify() and tls_sess_init()'s reading of TLSOptions
tls_lookup_verify(v, no_reuse) ==
  /\ cert_pc = "config"
  /\ cert_pc' = "ctrl"
  /\ verify_client' = v
  /\ cert_no_reuse' = no_reuse
  /\ \E c \in (CASE v = 0 -> {NoCert} [] v = 1 -> Certs
                  [] OTHER -> Certs \cup {NoCert}) : ctrl_cert' = c
  /\ UNCHANGED <<cert_have_ccc, data_cert, cert_role, cert_res>>
  /\ UNCHANGED <<sessVars, renegVars, keyVars, ocspVars, dhVars, pkeyVars, tkVars, hsVars>>

\* tls_ccc(): the control connection goes back to clear text
tls_ccc_cert ==
  /\ cert_pc = "ctrl" /\ ~cert_have_ccc
  /\ cert_have_ccc' = TRUE
  /\ UNCHANGED <<cert_pc, verify_client, cert_no_reuse, ctrl_cert, data_cert,
                 cert_role, cert_res>>
  /\ UNCHANGED <<sessVars, renegVars, keyVars, ocspVars, dhVars, pkeyVars, tkVars, hsVars>>

\* The part of tls_netio_postopen_cb() that follows a data handshake which
\* SSL_accept()/SSL_connect() completed (hs_ok): in the server role the
\* session reuse test of tls_accept() and the comparison of the two peer
\* certificates.  resumed says that the client resumed the session of the
\* control connection, whose peer certificate the data session then has.
tls_netio_postopen_cert(role, hs_ok, resumed, cert) ==
  /\ cert_pc = "ctrl"
  /\ cert_pc' = "data"
  /\ cert_role' = role
  /\ data_cert' = cert
  /\ IF role = "server"
     THEN /\ cert \in PeerCerts
          /\ resumed => cert = ctrl_cert
     ELSE cert \in Certs /\ ~resumed
  /\ ~hs_ok => (~resumed /\ cert = NoCert)
  /\ LET reuse_fails == /\ ~cert_no_reuse /\ ~cert_have_ccc /\ ~resumed
          cc == SSL_get_peer_certificate(~cert_have_ccc, ctrl_cert)
          dc == SSL_get_peer_certificate(TRUE, cert)
     IN cert_res' =
          IF ~hs_ok THEN "EPERM"
          ELSE IF role = "client" THEN "ok"
          ELSE IF reuse_fails THEN "EPERM"
          ELSE IF cc # NoCert /\ dc # NoCert /\ X509_cmp(cc, dc) # 0
          THEN "EPERM"
          ELSE "ok"
  /\ UNCHANGED <<verify_client, cert_no_reuse, cert_have_ccc, ctrl_cert>>
  /\ UNCHANGED <<sessVars, renegVars, keyVars, ocspVars, dhVars, pkeyVars, tkVars, hsVars>>

\* the data connection is closed
tls_netio_close_cert ==
  /\ cert_pc = "data"
  /\ cert_pc' = "ctrl"
  /\ data_cert' = NoCert
  /\ cert_role' = "none"
  /\ cert_res' = "none"
  /\ UNCHANGED <<verify_client, cert_no_reuse, cert_have_ccc, ctrl_cert>>
  /\ UNCHANGED <<sessVars, renegVars, keyVars, ocspVars, dhVars, pkeyVars, tkVars, hsVars>>

NextCert ==
  \/ \E v \in {0, 1, 2}, no_reuse \in BOOLEAN : tls_lookup_verify(v, no_reuse)
  \/ tls_ccc_cert
  \/ \E role \in {"server", "client"}, hs_ok \in BOOLEAN, resumed \in BOOLEAN,
        cert \in Certs \cup {NoCert} :
       tls_netio_postopen_cert(role, hs_ok, resumed, cert)
  \/ tls_netio_close_cert

SpecCert == Init /\ [][NextCert]_vars

(***************************************************************************)
(* Renegotiations: tls_info_cb() and the requests of the server, for a     *)
(* session of a protocol version that has renegotiations (TLSv1.2 and      *)
(* earlier) with TLSRenegotiate in force.                                  *)
(***************************************************************************)
RenegOthers == <<sessVars, keyVars, ocspVars, dhVars, pkeyVars, tkVars, hsVars,
                 certVars>>

\* tls_info_cb() with SSL_CB_HANDSHAKE_DONE: the flags afterwards
HandshakeDoneFlags(flags) ==
  LET f1 == flags \ {"CTRL_RENEGOTIATING"}
  IN IF f1 \ {"DATA_RENEGOTIATING"} # {} THEN f1 \ {"DATA_RENEGOTIATING"}
     ELSE f1

\* tls_sess_init() reads TLSOptions and TLSRenegotiate; AUTH TLS then runs tls_accept() on the
\* control connection, whose handshake ends in tls_info_cb() with
\* SSL_CB_HANDSHAKE_DONE while ctrl_ssl is still NULL
reneg_auth(allow, ctrl_timeout, data_limit) ==
  /\ rn_pc = "config"
  /\ rn_pc' = "run"
  /\ rn_allow' = allow
  /\ rn_ctrl_timeout' = ctrl_timeout
  /\ rn_data_limit' = data_limit
  /\ tls_ctrl_need_init_handshake' = FALSE
  /\ rn_ctrl' = "up"
  /\ rn_flags' = HandshakeDoneFlags(rn_flags) \cup {"ON_CTRL"}
  /\ UNCHANGED <<tls_data_need_init_handshake, rn_data, rn_hello, rn_disc>>
  /\ UNCHANGED RenegOthers

ReNegRunning == rn_pc = "run" /\ rn_disc = "none"

\* tls_netio_postopen_cb() in the server role: tls_data_need_init_handshake
\* is set, and the handshake ends in SSL_CB_HANDSHAKE_DONE with ctrl_ssl set
reneg_postopen ==
  /\ ReNegRunning /\ rn_data = "none"
  /\ rn_data' = "up"
  /\ tls_data_need_init_handshake' = FALSE
  /\ rn_flags' = HandshakeDoneFlags(rn_flags) \cup {"ON_DATA"}
  /\ rn_hello' = NoHello
  /\ UNCHANGED <<rn_pc, rn_allow, rn_ctrl_timeout, rn_data_limit,
                 tls_ctrl_need_init_handshake, rn_ctrl,
                 rn_disc>>
  /\ UNCHANGED RenegOthers

\* tls_netio_close_cb() on the data connection
reneg_close ==
  /\ ReNegRunning /\ rn_data = "up"
  /\ rn_data' = "none"
  /\ rn_flags' = rn_flags \ {"ON_DATA"}
  /\ rn_hello' = NoHello
  /\ UNCHANGED <<rn_pc, rn_allow, rn_ctrl_timeout, rn_data_limit,
                 tls_ctrl_need_init_handshake,
                 tls_data_need_init_handshake, rn_ctrl, rn_disc>>
  /\ UNCHANGED RenegOthers

\* tls_ctrl_renegotiate_cb(): the timer of TLSRenegotiate ctrl
reneg_ctrl_renegotiate_cb ==
  /\ ReNegRunning /\ rn_ctrl_timeout
  /\ rn_ctrl = "up" /\ "ON_CTRL" \in rn_flags
  /\ rn_flags' = IF rn_allow THEN rn_flags \cup {"CTRL_RENEGOTIATING"}
                 ELSE rn_flags
  /\ rn_hello' = NoHello
  /\ UNCHANGED <<rn_pc, rn_allow, rn_ctrl_timeout, rn_data_limit,
                 tls_ctrl_need_init_handshake,
                 tls_data_need_init_handshake, rn_ctrl, rn_data, rn_disc>>
  /\ UNCHANGED RenegOthers

\* tls_data_renegotiate(): the transfer has reached the data limit of
\* TLSRenegotiate
tls_data_renegotiate ==
  /\ ReNegRunning /\ rn_data_limit /\ rn_data = "up"
  /\ rn_flags' = rn_flags \cup {"DATA_RENEGOTIATING"}
  /\ rn_hello' = NoHello
  /\ UNCHANGED <<rn_pc, rn_allow, rn_ctrl_timeout, rn_data_limit,
                 tls_ctrl_need_init_handshake,
                 tls_data_need_init_handshake, rn_ctrl, rn_data, rn_disc>>
  /\ UNCHANGED RenegOthers

\* the *_RENEGOTIATING flag of a connection
RenegFlag(conn) ==
  IF conn = "ctrl" THEN "CTRL_RENEGOTIATING" ELSE "DATA_RENEGOTIATING"

\* tls_info_cb() with SSL_CB_ACCEPT_LOOP in the state "read ClientHello": a
\* ClientHello has come in on the connection conn; by_client says that the
\* server had not asked for it on that connection.
tls_info_cb(conn, by_client) ==
  /\ ReNegRunning
  /\ IF conn = "ctrl" THEN rn_ctrl = "up" ELSE rn_data = "up"
  /\ ~by_client => RenegFlag(conn) \in rn_flags
  /\ rn_hello' = [conn |-> conn, by_client |-> by_client]
  /\ LET renegotiation ==
           IF conn = "ctrl" THEN ~tls_ctrl_need_init_handshake
           ELSE ~tls_data_need_init_handshake
         refused == /\ renegotiation
                    /\ conn = "ctrl"
                    /\ "CTRL_RENEGOTIATING" \notin rn_flags
                    /\ "DATA_RENEGOTIATING" \notin rn_flags
                    /\ ~rn_allow
     IN IF refused
        THEN rn_ctrl' = "none" /\ rn_disc' = "CONFIG_ACL"
        ELSE UNCHANGED <<rn_ctrl, rn_disc>>
  /\ UNCHANGED <<rn_pc, rn_allow, rn_ctrl_timeout, rn_data_limit,
                 rn_flags, tls_ctrl_need_init_handshake,
                 tls_data_need_init_handshake, rn_data>>
  /\ UNCHANGED RenegOthers

\* tls_info_cb() with SSL_CB_HANDSHAKE_DONE on an established session: the
\* renegotiation that the last ClientHello started is through (ctrl_ssl is
\* not NULL)
tls_info_cb_done ==
  /\ ReNegRunning /\ rn_hello # NoHello
  /\ tls_data_need_init_handshake' = FALSE
  /\ rn_flags' = HandshakeDoneFlags(rn_flags)
  /\ UNCHANGED <<rn_pc, rn_allow, rn_ctrl_timeout, rn_data_limit,
                 tls_ctrl_need_init_handshake, rn_ctrl,
                 rn_data, rn_hello, rn_disc>>
  /\ UNCHANGED RenegOthers

NextReneg ==
  \/ \E allow, ctrl_timeout, data_limit \in BOOLEAN :
       reneg_auth(allow, ctrl_timeout, data_limit)
  \/ reneg_postopen
  \/ reneg_close
  \/ reneg_ctrl_renegotiate_cb
  \/ tls_data_renegotiate
  \/ \E conn \in Conns, by_client \in BOOLEAN : tls_info_cb(conn, by_client)
  \/ tls_info_cb_done

SpecReneg == Init /\ [][NextReneg]_vars

(***************************************************************************)
(* Properties of the ticket key ring (checked under SpecKeys).             *)
(***************************************************************************)
KeyAge(i) == now - tls_ticket_keys[i]

\* C6 as stated: at every moment every key of the ring satisfies
\* now - created <= max_age.  (Refuted: a key outlives max_age until the next
\* admission sweeps it.)
C6_KeysWithinMaxAge ==
  \A i \in DOMAIN tls_ticket_keys : KeyAge(i) <= tls_ticket_key_max_age

\* C6, amended: right after an admission that found at least two keys in the
\* ring, every key of the ring satisfies now - created <= max_age.
C6_SweptKeysWithinMaxAge ==
  last_add = "swept" =>
    \A i \in DOMAIN tls_ticket_keys : KeyAge(i) <= tls_ticket_key_max_age

\* an admission has swept the ring after more than max_age seconds, and keys
\* are left
C6_Witness ==
  /\ last_add = "swept"
  /\ now > tls_ticket_key_max_age
  /\ Len(tls_ticket_keys) >= 2

\* C7: once the first key has been generated (the set exists), the ring
\* holds at least one key, whatever rotations, admissions and evictions
\* follow.
C7_RingNeverEmpty ==
  have_keyset =>
    Len(tls_ticket_keys) >= 1 /\ tls_ticket_key_curr_count >= 1

\* a sweep has evicted every key the ring held, the first one included, and
\* the key just admitted is the only one
C7_Witness ==
  /\ have_keyset
  /\ last_add = "swept"
  /\ Len(tls_ticket_keys) = 1
  /\ tls_ticket_keys[1] = now /\ now > 0

\* C8 as stated: the ring never holds more than max_count keys.  (Refuted:
\* add_ticket_key evicts only when the count equals max_count.)
C8_RingWithinMaxCount ==
  Len(tls_ticket_keys) <= tls_ticket_key_max_count

\* C26 as stated: right after the admission of a new key no key older than
\* max_age remains in the ring.  (Refuted: a ring of a single key is not
\* swept, so that key stays next to the new one however old it is.)
C26_NoExpiredAfterInsert ==
  last_add # "none" =>
    \A i \in DOMAIN tls_ticket_keys : KeyAge(i) <= tls_ticket_key_max_age

\* C26, amended: an admission that finds at least two keys in the ring
\* evicts every key older than max_age before it inserts the new one: no
\* such key of the ring before the step is in the ring after it.
C26_SweepEvictsExpired ==
  [][last_add' = "swept" =>
       \A i \in DOMAIN tls_ticket_keys :
         now - tls_ticket_keys[i] > tls_ticket_key_max_age'
           => \A j \in DOMAIN tls_ticket_keys' :
                tls_ticket_keys'[j] # tls_ticket_keys[i]]_vars

\* an admission has swept a ring whose keys were all older than max_age: the
\* new key is the only one left, under a max_count that asks for no eviction
C26_Witness ==
  /\ last_add = "swept" /\ last_evicted = -1
  /\ tls_ticket_keys = <<now>>
  /\ tls_ticket_key_curr_count < tls_ticket_key_max_count

\* C27: when an admission finds the count equal to max_count after the
\* sweep, the key it evicts is the oldest one of the ring that the sweep has
\* left, and never the newest one.
C27_EvictsOldest ==
  [][last_evicted' # -1 =>
       LET r1 == remove_expired_ticket_keys(Ring, tls_ticket_key_max_age',
                                            now)
           cs == {r1.keys[i] : i \in DOMAIN r1.keys}
       IN /\ r1.count = tls_ticket_key_max_count'
          /\ last_evicted' \in cs
          /\ \A c \in cs : last_evicted' <= c
          /\ \E c \in cs : last_evicted' < c]_vars

\* an admission has evicted a key that the sweep had left, and the ring is
\* full
C27_Witness ==
  /\ last_evicted # -1 /\ last_add = "swept"
  /\ now - last_evicted <= tls_ticket_key_max_age
  /\ tls_ticket_key_curr_count = tls_ticket_key_max_count

\* C24: the encrypt path of the ticket callback (mode 1) uses the newest key
\* of the ring, the one with the greatest creation time, whatever admissions
\* and evictions came before.
C24_EncryptUsesNewest ==
  (ticket_ret.mode = 1 /\ have_keyset)
    => (ticket_ret.res = 1 /\ ticket_ret.key = ticket_ret.newest)

\* a ticket was encrypted when the ring held two keys or more, after more
\* admissions than the ring has keys (a key was evicted)
C24_Witness ==
  /\ ticket_ret.mode = 1 /\ ticket_ret.res = 1
  /\ Len(tls_ticket_keys) >= 2
  /\ now > tls_ticket_key_max_age
  /\ ticket_ret.key = tls_ticket_keys[1]

\* C25 as stated: on the decrypt path (mode 0), when the named key is found
\* and is not the newest, the callback returns 2 (renew) for a session of the
\* control connection and 1 (use) for one of a data connection.  (Refuted:
\* the result depends on the protocol version alone.)
C25_RenewOnCtrlOnly ==
  (/\ ticket_ret.mode = 0 /\ ticket_ret.key # -1
   /\ ticket_ret.key # ticket_ret.newest)
    => ticket_ret.res = (IF ticket_ret.conn = "ctrl" THEN 2 ELSE 1)

(***************************************************************************)
(* Properties of one FTP session (checked under Spec).                     *)
(***************************************************************************)
\* C1: on a data connection opened while TLS_SESS_NEED_DATA_PROT was set,
\* application bytes flow only after its TLS handshake has completed.
C1_HandshakeBeforeData ==
  (data.open /\ data.need_prot /\ data.tls_bytes + data.plain_bytes > 0)
    => data.hs_done

\* protected bytes have flowed on such a data connection
C1_Witness ==
  data.open /\ data.need_prot /\ data.hs_done /\ data.tls_bytes > 0

\* the handshake record of the data connection is still at hand
DataSessKnown == data.open /\ data.accepted /\ data.sess # NoDataSess

C3_AuthAfterCCC ==
  (last_cmd.name = "AUTH" /\ "HAVE_CCC" \in tls_flags) => reply = R_534

\* C3, amended: once CCC has been accepted, every later AUTH that has an
\* argument gets 534, and an AUTH without argument gets 504.
C3_AuthAfterCCCWithArg ==
  (last_cmd.name = "AUTH" /\ "HAVE_CCC" \in tls_flags) =>
    reply = IF last_cmd.arg = "none" THEN R_504 ELSE R_534

\* AUTH TLS has been refused after CCC
C3_Witness ==
  /\ last_cmd = [name |-> "AUTH", arg |-> "TLS"]
  /\ "HAVE_CCC" \in tls_flags
  /\ reply = R_534

\* C4: TLS_SESS_HAVE_CCC set implies TLS_SESS_ON_CTRL not set.
C4_CccExcludesOnCtrl ==
  "HAVE_CCC" \in tls_flags => "ON_CTRL" \notin tls_flags

\* the control channel has been cleared and the session has gone on to a
\* transfer
C4_Witness == "HAVE_CCC" \in tls_flags /\ data.open

\* C5 as stated: TLS_SESS_NEED_DATA_PROT set implies TLS_SESS_ON_CTRL or
\* TLS_SESS_HAVE_CCC set.  (Refuted: the close of the control write stream
\* clears ON_CTRL and leaves NEED_DATA_PROT.)
C5_DataProtNeedsCtrl ==
  "NEED_DATA_PROT" \in tls_flags =>
    ("ON_CTRL" \in tls_flags \/ "HAVE_CCC" \in tls_flags)

\* C5, amended: while the write stream of the control connection is open,
\* TLS_SESS_NEED_DATA_PROT set implies TLS_SESS_ON_CTRL or TLS_SESS_HAVE_CCC
\* set.
C5_DataProtNeedsCtrlWhileOpen ==
  (strm_fd["ctrl_wr"] /\ "NEED_DATA_PROT" \in tls_flags) =>
    ("ON_CTRL" \in tls_flags \/ "HAVE_CCC" \in tls_flags)

\* data protection is on, the read stream of the protected control
\* connection is closed and its write stream is open
C5_Witness ==
  /\ "NEED_DATA_PROT" \in tls_flags /\ "ON_CTRL" \in tls_flags
  /\ strm_fd["ctrl_wr"] /\ ~strm_fd["ctrl_rd"]

Before(conn, a, b) ==
  \E i, j \in DOMAIN wire[conn] :
    i < j /\ wire[conn][i] = a /\ wire[conn][j] = b

\* C10 as stated: when a stream of a connection that carries TLS is shut
\* down, the close_notify alert is on the wire before the TCP FIN, unless
\* tls_end_sess found the peer not to speak TLS any more.  (Refuted: the
\* shutdown of a read stream sends the FIN alone.)
C10_CloseNotifyBeforeFin ==
  \A conn \in Conns :
    (Before(conn, "hs", "FIN") /\ ~peeked)
      => Before(conn, "close_notify", "FIN")

\* C11: the step that accepts CCC puts the 200 reply on the wire of the
\* control connection first; whatever the shutdown of the control TLS
\* session sends (the close_notify) comes after it.
C11_ReplyBeforeCtrlShutdown ==
  [][(last_cmd'.name = "CCC" /\ reply' = R_200) =>
       /\ Len(wire'["ctrl"]) > Len(wire["ctrl"])
       /\ SubSeq(wire'["ctrl"], 1, Len(wire["ctrl"]) + 1)
            = Append(wire["ctrl"], "R200")]_vars

\* CCC has been accepted and the control channel is cleared
C11_Witness ==
  /\ last_cmd.name = "CCC" /\ reply = R_200
  /\ "HAVE_CCC" \in tls_flags
  /\ Before("ctrl", "R200", "close_notify")


(***************************************************************************)
\* the control connection has carried a completed handshake
CtrlHandshakeDone ==
  \E i \in DOMAIN wire["ctrl"] : wire["ctrl"][i] = "hs"

\* C21: within one session, a step that starts the handshake of a data
\* connection (tls_netio_postopen_cb creating the SSL of the connection it
\* opens) is taken only after a handshake of the control connection has
\* completed.
C21_CtrlHandshakeFirst ==
  [][(~data.open /\ data'.open /\ n_ssl' > n_ssl) => CtrlHandshakeDone]_vars

\* a data connection whose handshake completed, in a session whose control
\* connection had its handshake
C21_Witness ==
  data.open /\ data.hs_done /\ data.ok /\ CtrlHandshakeDone

\* C20: a step in which a handshake of the control channel fails (the one of
\* AUTH, the one at the start of an implicit session, or a required
\* renegotiation that did not take place before its timeout) leaves the
\* session disconnected.  (Refuted: after the renegotiation timeout the
\* session goes on.)
C20_CtrlFailureDisconnects ==
  [][(\/ /\ last_cmd = NoCmd /\ last_cmd'.name = "AUTH"
         /\ wire'["ctrl"] # wire["ctrl"]
         /\ "ON_CTRL" \notin tls_flags'
      \/ /\ pc = "preinit" /\ pc' = "active"
         /\ "UseImplicitSSL" \in tls_opts'
         /\ "ON_CTRL" \notin tls_flags'
      \/ /\ {"ON_CTRL", "CTRL_RENEGOTIATING"} \subseteq tls_flags
         /\ tls_renegotiate = "required"
         /\ last_cmd' = last_cmd
         /\ ctrl_ssl # NULL /\ ctrl_ssl' = NULL)
       => disc' # "none"]_vars

\* C19: whenever TLSRequired asks for TLS at authentication, ON_CTRL is not
\* set and AllowPerUser is not set, USER, PASS and ACCT are answered with 550
\* and change nothing of the session.
C19_LoginNeedsTls ==
  [][(/\ last_cmd = NoCmd /\ last_cmd'.name \in {"USER", "PASS", "ACCT"}
      /\ tls_required_on_auth = 1
      /\ "ON_CTRL" \notin tls_flags
      /\ "AllowPerUser" \notin tls_opts)
       => /\ reply' = R_550
          /\ UNCHANGED <<pc, cfgVars, tls_flags, authenticated,
                         tls_sscn_mode, rfc2228_mech, ioVars>>]_vars

\* USER has been rejected on a control channel that CCC had cleared
C19_Witness ==
  /\ last_cmd.name = "USER" /\ reply = R_550
  /\ tls_required_on_auth = 1 /\ "AllowPerUser" \notin tls_opts
  /\ "HAVE_CCC" \in tls_flags /\ "ON_CTRL" \notin tls_flags
  /\ disc = "none"

C16_PlainRejects503 ==
  [][(/\ last_cmd = NoCmd /\ last_cmd'.name \in {"PBSZ", "PROT"}
      /\ rfc2228_mech = "NULL")
       => /\ reply' = R_503
          /\ tls_flags' = tls_flags /\ rfc2228_mech' = "NULL"
          /\ ctrl_ssl' = ctrl_ssl]_vars

\* C16: while no AUTH has been accepted, the handlers of PBSZ and PROT add
\* no reply (they decline the command), unless the TLSRequired check that
\* precedes them answers 550; either way the session is left as it was.
\* 503 is the answer only once "TLS" is the session's mechanism and the
\* control channel is not protected.
C16_PlainDeclines ==
  [][(last_cmd = NoCmd /\ last_cmd'.name \in {"PBSZ", "PROT"})
       => /\ rfc2228_mech = "NULL"
            => /\ reply' \in {NoReply, R_550}
               /\ reply' = R_550 <=> tls_any(last_cmd'.name, FALSE) = R_550
               /\ tls_flags' = tls_flags /\ rfc2228_mech' = "NULL"
               /\ ctrl_ssl' = ctrl_ssl
          /\ reply' = R_503
            => rfc2228_mech = "TLS" /\ "ON_CTRL" \notin tls_flags]_vars

\* PBSZ has been declined in a session with TLSEngine on and no AUTH so far
C16_Witness ==
  /\ last_cmd.name = "PBSZ" /\ reply = NoReply
  /\ tls_engine /\ rfc2228_mech = "NULL" /\ tls_flags = {}
  /\ pc = "active" /\ disc = "none"

\* C15 as stated: with UseImplicitSSL, once the handshake at the start of
\* the session has succeeded, ON_CTRL and NEED_DATA_PROT are both set.
C15_ImplicitSetsBoth ==
  [][(/\ pc = "preinit" /\ pc' = "active"
      /\ "UseImplicitSSL" \in tls_opts'
      /\ ctrl_ssl' # NULL /\ disc' = "none")
       => {"ON_CTRL", "NEED_DATA_PROT"} \subseteq tls_flags']_vars

\* C15: with UseImplicitSSL, once the handshake at the start of the session
\* has succeeded, ON_CTRL is set, and NEED_DATA_PROT is set unless
\* TLSRequired forbids protected data transfers.
C15_ImplicitSetsBothUnlessForbidden ==
  [][(/\ pc = "preinit" /\ pc' = "active"
      /\ "UseImplicitSSL" \in tls_opts'
      /\ ctrl_ssl' # NULL /\ disc' = "none")
       => /\ "ON_CTRL" \in tls_flags'
          /\ "NEED_DATA_PROT" \in tls_flags' <=> tls_required_on_data' # -1]_vars

\* the session has started with a successful implicit handshake and nothing
\* else has happened on the control connection
C15_Witness ==
  /\ pc = "active" /\ "UseImplicitSSL" \in tls_opts
  /\ wire["ctrl"] = <<"hs">> /\ ctrl_ssl # NULL /\ disc = "none"
  /\ {"ON_CTRL", "NEED_DATA_PROT"} \subseteq tls_flags
  /\ last_cmd = NoCmd

\* C13: when a HOST command has stored a name that is no IP literal and the
\* ClientHello of an AUTH handshake then carries a server_name that differs
\* from it even when case is ignored, the server sends the fatal alert
\* access_denied, the control channel stays without TLS, and the session is
\* disconnected.
C13_SniMismatchDenied ==
  [][(/\ last_cmd'.name = "AUTH" /\ wire'["ctrl"] # wire["ctrl"]
      /\ session_notes.host # NoName
      /\ ~pr_netaddr_is_v4(session_notes.host)
      /\ ~pr_netaddr_is_v6(session_notes.host)
      /\ ssl_servername' # NoName
      /\ tolower(ssl_servername') # tolower(session_notes.host))
       => /\ Before("ctrl", "R234", "access_denied")'
          /\ ~Before("ctrl", "R234", "hs")'
          /\ "ON_CTRL" \notin tls_flags' /\ ctrl_ssl' = NULL
          /\ disc' # "none"]_vars

\* HOST foo.example.com, then AUTH TLS with the server_name bar.example.com
C13_Witness ==
  /\ last_cmd.name = "AUTH" /\ last_cmd.arg = "TLS"
  /\ session_notes.host = "foo.example.com"
  /\ ssl_servername = "bar.example.com"
  /\ Before("ctrl", "R234", "access_denied")
  /\ disc # "none"

\* C12: without NoSessionReuseRequired and without CCC, a data
\* connection whose handshake used a session that was not resumed is torn
\* down (no TLS session left on its streams, no transfer), the failure
\* reaches the transfer as EPERM, and the control session goes on.
C12_FreshSessionRejected ==
  (/\ data.open /\ data.sess # NoDataSess /\ ~data.sess.reused
   /\ "NoSessionReuseRequired" \notin tls_opts
   /\ "HAVE_CCC" \notin tls_flags)
    => /\ ~data.ok /\ data.xerrno = "EPERM"
       /\ notes["data_rd"] = NULL /\ notes["data_wr"] = NULL
       /\ disc = "none" /\ ~uaf

(***************************************************************************)
(* Properties of OCSP stapling (checked under SpecOcsp).                   *)
(***************************************************************************)
\* C14: when the certificate carries must-staple and the responder, asked
\* during the handshake, gave no response, the callback staples a response
\* and that response is the made-up tryLater one.  (Refuted: a stale cached
\* response is stapled in its place.)
C14_MustStapleGetsTryLater ==
  (stapled.must_staple /\ stapled.unreachable)
    => stapled.res = "OK" /\ stapled.origin = "fake"

\* C9: a response that a handshake staples out of the cache is not stale
\* under the staleness rules; any other stapled response was obtained (from
\* the responder, or made up as tryLater) during that handshake.  (Refuted:
\* a stale entry is stapled when no fresh response could be obtained.)
C9_StapledFreshOrNotStale ==
  (stapled.res = "OK" /\ stapled.origin = "cache") => ~stapled.stale

(***************************************************************************)
(* Properties of the Diffie-Hellman parameters (checked under SpecDh).     *)
(***************************************************************************)
\* C22 as stated: when AllowWeakDH is not set and the handshake asks for
\* fewer than 2048 bits, the DH parameters that tls_dh_cb returns have at
\* least 2048 bits, be they configured or built-in.  (Refuted: a private key
\* of a length without built-in parameters gets the built-in 1024 bits, and
\* the configured parameters are searched with the lengths as asked.)
C22_DhAtLeastMin ==
  (dh_ret.called /\ ~opt_allow_weak_dh /\ dh_ret.keylen < TLS_DH_MIN_LEN)
    => dh_ret.bits >= TLS_DH_MIN_LEN

(***************************************************************************)
(* Properties of the stored passphrases (checked under SpecPkeys).         *)
(***************************************************************************)
\* C23 as stated: the buffer of every scrubbed passphrase record is zeroed
\* and unlocked by the time it is freed.  (Refuted: tls_scrub_pkey zeroes the
\* buffer and frees it, and nothing unlocks it.)
C23_ScrubbedZeroUnlocked ==
  \A p \in DOMAIN pk_pages :
    pk_pages[p].st = "freed" => (pk_pages[p].zero /\ ~pk_pages[p].locked)

(***************************************************************************)
(* Properties of the handshake loop (checked under SpecHs).                *)
(***************************************************************************)
\* C28 as stated: the handshake timer fires once and sets a flag, and the
\* loop that finds the flag set surfaces Timeout for the handshake whose
\* timer fired.  (Refuted: the timer of a handshake that failed stays armed,
\* fires during a later handshake and times that one out.)
C28_TimeoutForOwnHandshake ==
  (hs_pc = "idle" /\ hs_res = -4) => timed_out_by = hs_n

\* C30 as stated: whenever the handshake of a data connection has ended, be
\* it by success, failure or timeout, the session cache mode of the SSL_CTX
\* is what it was before the handshake started.  (Refuted: only the success
\* path restores the mode.)
C30_CacheModeRestored ==
  (hs_pc = "idle" /\ hs_n > 0 /\ hs_conn = "data")
    => ctx_cache_mode = hs_cache_mode

(***************************************************************************)
(* Properties of the peer certificates (checked under SpecCert).           *)
(***************************************************************************)
\* C29 as stated: when the peer sent a certificate on the control
\* connection, a protected data connection is accepted only with a peer
\* certificate identical to it.  (Refuted: a data connection whose peer
\* sent no certificate is accepted.)
C29_DataCertIdentical ==
  (cert_pc = "data" /\ cert_res = "ok" /\ ctrl_cert # NoCert)
    => data_cert = ctrl_cert

\* C29, amended: when the peer sent a certificate on the control connection,
\* which is still protected, and one on a data connection that the server
\* accepted in the server role, the two certificates are identical.
C29_SentCertsIdentical ==
  (/\ cert_pc = "data" /\ cert_res = "ok" /\ cert_role = "server"
   /\ ~cert_have_ccc /\ ctrl_cert # NoCert /\ data_cert # NoCert)
    => data_cert = ctrl_cert

C29_Witness ==
  /\ cert_pc = "data" /\ cert_res = "ok" /\ cert_role = "server"
  /\ cert_no_reuse /\ ~cert_have_ccc
  /\ ctrl_cert # NoCert /\ data_cert = ctrl_cert

(***************************************************************************)
(* Properties of the role on the data connection (checked under Spec).     *)
(***************************************************************************)
\* SSCN ON has selected the client mode and SSCN OFF the server mode
SscnSelects ==
  /\ (last_cmd = [name |-> "SSCN", arg |-> "ON"] /\ reply = R_200)
       => tls_sscn_mode = TLS_SSCN_MODE_CLIENT
  /\ (last_cmd = [name |-> "SSCN", arg |-> "OFF"] /\ reply = R_200)
       => tls_sscn_mode = TLS_SSCN_MODE_SERVER

\* C31 as stated: the handshake of a data connection that needs protection
\* is done in the server role when SSCN is in server mode and in the client
\* role when it is in client mode; SSCN ON selects the client mode and SSCN
\* OFF the server mode.  (Refuted: a directory listing is handled in the
\* server role in client mode, too.)
C31_RoleFollowsSscn ==
  /\ (data.open /\ data.hs_done)
       => (data.accepted <=> tls_sscn_mode = TLS_SSCN_MODE_SERVER)
  /\ SscnSelects

\* C31, amended: the handshake is done in the server role when SSCN is in
\* server mode or the command is a directory listing, and in the client role
\* otherwise; SSCN ON selects the client mode and SSCN OFF the server mode.
C31_RoleFollowsSscnOrListing ==
  /\ (data.open /\ data.hs_done)
       => (data.accepted <=> (\/ tls_sscn_mode = TLS_SSCN_MODE_SERVER
                              \/ data.cmd = "LIST"))
  /\ SscnSelects

C31_Witness ==
  /\ data.open /\ data.hs_done /\ data.need_prot
  /\ tls_sscn_mode = TLS_SSCN_MODE_CLIENT
  /\ data.cmd = "LIST" /\ data.accepted

(***************************************************************************)
(* Properties of the SNI callback (checked under SpecSni).                 *)
(***************************************************************************)
\* the ClientHello of the control handshake named another virtual host, on
\* which TLSEngine is off, and tls_sni_cb came to look that host up
SniNamesDisabledVh ==
  /\ ssl_servername # NoName
  /\ sni_vh.named = "other" /\ ~sni_vh.engine
  /\ "IgnoreSNI" \notin tls_opts
  /\ ~pr_netaddr_is_v4(ssl_servername) /\ ~pr_netaddr_is_v6(ssl_servername)
  /\ \/ session_notes.host = NoName
     \/ pr_netaddr_is_v4(session_notes.host)
     \/ pr_netaddr_is_v6(session_notes.host)
     \/ strcasecmp(session_notes.host, ssl_servername) = 0

\* the control handshake failed with the fatal alert a
CtrlFailedWith(a) ==
  /\ \E i \in DOMAIN wire["ctrl"] : wire["ctrl"][i] = a
  /\ \A i \in DOMAIN wire["ctrl"] : wire["ctrl"][i] # "hs"
  /\ "ON_CTRL" \notin tls_flags /\ ctrl_ssl = NULL

\* C32 as stated: when the SNI names a virtual host on which TLS is
\* disabled, the control handshake is failed with the alert
\* handshake_failure.  (Refuted: the alert is unrecognized_name.)
C32_DisabledVhHandshakeFailure ==
  SniNamesDisabledVh => CtrlFailedWith("handshake_failure")

\* C32, amended: when the SNI names a virtual host on which TLS is disabled,
\* the control handshake is failed with the alert unrecognized_name, and
\* with handshake_failure only where the TLS library has no
\* unrecognized_name alert.
C32_DisabledVhAlert ==
  SniNamesDisabledVh
    => CtrlFailedWith(IF sni_vh.unrecognized_name THEN "unrecognized_name"
                      ELSE "handshake_failure")

C32_Witness ==
  /\ SniNamesDisabledVh /\ sni_vh.unrecognized_name
  /\ CtrlFailedWith("unrecognized_name") /\ disc # "none"

(***************************************************************************)
(* Properties of the session timeouts (checked under Spec).                *)
(***************************************************************************)
\* a session timer of the core fires while the control connection has a
\* TLS session
TimeoutOnTls ==
  /\ disc = "none" /\ disc' = "TIMEOUT"
  /\ ctrl_ssl # NULL /\ "ON_CTRL" \in tls_flags

\* tls_timeout_ev has shut the control TLS session down: the close_notify
\* alert went out unless it had gone out before, the SSL object is freed and
\* nothing refers to it any more
CtrlShutDown ==
  /\ ssl_st'[ctrl_ssl] = "freed"
  /\ ctrl_ssl' = NULL
  /\ notes'["ctrl_rd"] = NULL /\ notes'["ctrl_wr"] = NULL
  /\ wire'["ctrl"] = IF ssl_sent[ctrl_ssl] \/ FinSent(World, "ctrl")
                     THEN wire["ctrl"]
                     ELSE Append(wire["ctrl"], "close_notify")

\* C33 as stated: when a session-wide timer (idle, login, no-transfer,
\* session, stalled) fires, a bidirectional shutdown of the control TLS
\* session is performed.  (Refuted: tls_end_sess is called without the
\* flag BIDIRECTIONAL.)
C33_TimeoutShutdownBidirectional ==
  [][TimeoutOnTls => (CtrlShutDown /\ end_bidi')]_vars

\* C33, amended: when a session-wide timer fires, the control TLS session is
\* shut down in one direction: the server sends its close_notify and frees
\* the session without waiting for the close_notify of the peer.
C33_TimeoutShutdownOneWay ==
  [][TimeoutOnTls => (CtrlShutDown /\ ~end_bidi')]_vars

C33_Witness ==
  /\ disc = "TIMEOUT" /\ "ON_CTRL" \in tls_flags /\ ctrl_ssl = NULL
  /\ \E i \in DOMAIN wire["ctrl"] : wire["ctrl"][i] = "close_notify"
  /\ ~end_bidi

(***************************************************************************)
(* Properties of renegotiations (checked under SpecReneg).                 *)
(***************************************************************************)
\* C34, for the control connection: a renegotiation that the client starts
\* while AllowClientRenegotiations is unset ends the session with the
\* reason PR_SESS_DISCONNECT_CONFIG_ACL.  (Refuted: not while a renegotiation
\* that the server asked for on the data connection is outstanding.)
C34_ClientRenegDisconnects ==
  (/\ rn_hello.conn = "ctrl" /\ rn_hello.by_client /\ ~rn_allow)
    => rn_disc = "CONFIG_ACL"

(***************************************************************************)
(* Properties of the stapling directives (checked under SpecOcsp).         *)
(***************************************************************************)
\* C35: once the session has looked its stapling directives up, stapling is
\* enabled whenever a stapling cache is configured, unless TLSStapling
\* switches it off.  (Refuted: without a TLSStapling directive stapling is
\* off.)
C35_StaplingOnWithCache ==
  (tls_ocsp_cache /\ stapling_directive \in {"absent", "on"}) => tls_stapling

(***************************************************************************)
(* Properties of the handshake timers (checked under SpecHs).              *)
(***************************************************************************)
\* C36: no handshake timer stays scheduled once tls_accept has returned, on
\* whichever path, so that only the timer of the handshake in progress can
\* set the flag.  (Refuted: the timer stays scheduled after a handshake that
\* failed or timed out because of an older timer.)
C36_NoTimerAfterReturn ==
  (hs_pc = "idle") => hs_timers = <<>>

(***************************************************************************)
(* Properties of the lifetime of SSL objects (checked under Spec).         *)
(***************************************************************************)
Dangling(id) == id # NULL /\ ssl_st[id] = "freed"

\* C37: once tls_end_sess has freed an SSL object, no stream note and no
\* ctrl_ssl pointer refers to it, and no later operation on a stream uses
\* it.  (Refuted: tls_connect stashes the object in the data stream notes
\* and frees it when the server certificate check fails; the close of a
\* write stream frees the object and leaves the read stream's note.)
C37_NoReferenceToFreed ==
  /\ \A s \in Streams : ~Dangling(notes[s])
  /\ ~Dangling(ctrl_ssl)
  /\ ~uaf

(***************************************************************************)
(* Properties of ON_CTRL and the control TLS session (checked under Spec). *)
(***************************************************************************)
\* C38: whenever ON_CTRL is set, the session has not been disconnected and
\* both control streams are open, the control connection has a live TLS
\* session: ctrl_ssl is non-NULL and live and both control stream notes
\* hold it.  (Refuted: the renegotiation timeout ends the control TLS
\* session and leaves ON_CTRL set.)
C38_OnCtrlHasSession ==
  (/\ "ON_CTRL" \in tls_flags /\ disc = "none"
   /\ strm_fd["ctrl_rd"] /\ strm_fd["ctrl_wr"])
    => /\ Live(World, ctrl_ssl)
       /\ notes["ctrl_rd"] = ctrl_ssl
       /\ notes["ctrl_wr"] = ctrl_ssl

(***************************************************************************)
(* Properties of NEED_DATA_PROT and TLSRequired (checked under Spec).      *)
(***************************************************************************)
\* C39: no step sets NEED_DATA_PROT in a session whose TLSRequired policy
\* forbids data protection (tls_required_on_data = -1), be it the step of
\* AUTH, of PROT or of the implicit handshake.  (Refuted: AUTH SSL and
\* AUTH TLS-P set the flag whatever the policy.)
C39_NoDataProtWhenForbidden ==
  [][("NEED_DATA_PROT" \notin tls_flags /\ "NEED_DATA_PROT" \in tls_flags')
       => tls_required_on_data' # -1]_vars

(***************************************************************************)
(* Properties of tls_lookup_pkey (checked under SpecPkeys).                *)
(***************************************************************************)
\* the records of other virtual hosts, with a passphrase, that the last
\* lookup found in the list
OtherPkeys ==
  {i \in DOMAIN pk_lookup.list : /\ pk_lookup.list[i].sid # pk_lookup.sid
                                 /\ pk_lookup.list[i].page # 0
                                 /\ pk_lookup.list[i].passlen > 0}

\* C40: after a lookup for a virtual host made with scrub_unless_match, the
\* buffer of every record of another virtual host that was in the list has
\* been scrubbed and freed, wherever the record of the virtual host itself
\* was.  (Refuted: the loop stops at the record it finds and leaves the
\* records behind it.)
C40_OthersScrubbed ==
  pk_lookup.scrub =>
    \A i \in OtherPkeys :
      LET pg == pk_pages[pk_lookup.list[i].page] IN
        pg.st = "freed" /\ pg.zero

TypeOK ==
  /\ stapling_directive \in {"none", "absent", "on", "off"}
  /\ rn_pc \in {"config", "run"}
  /\ rn_allow \in BOOLEAN
  /\ rn_ctrl_timeout \in BOOLEAN /\ rn_data_limit \in BOOLEAN
  /\ rn_flags \subseteq {"ON_CTRL", "ON_DATA", "CTRL_RENEGOTIATING",
                         "DATA_RENEGOTIATING"}
  /\ tls_ctrl_need_init_handshake \in BOOLEAN
  /\ tls_data_need_init_handshake \in BOOLEAN
  /\ rn_ctrl \in {"none", "up"} /\ rn_data \in {"none", "up"}
  /\ rn_hello \in [conn : Conns \cup {"none"}, by_client : BOOLEAN]
  /\ rn_disc \in {"none", "CONFIG_ACL"}
  /\ cert_pc \in {"config", "ctrl", "data"}
  /\ verify_client \in {0, 1, 2}
  /\ cert_no_reuse \in BOOLEAN /\ cert_have_ccc \in BOOLEAN
  /\ ctrl_cert \in Certs \cup {NoCert}
  /\ data_cert \in Certs \cup {NoCert}
  /\ cert_role \in {"none", "server", "client"}
  /\ cert_res \in {"none", "ok", "EPERM"}
  /\ hs_pc \in {"config", "idle", "retry"}
  /\ hs_n \in 0..MaxHs
  /\ hs_res \in {0, -3, -4}
  /\ hs_timers \in Seq(1..MaxHs)
  /\ ctx_cache_mode \in CtxCacheModes \cup {data_cache_mode}
  /\ tls_handshake_timed_out \in BOOLEAN
  /\ last_evicted \in -1..MaxTime
  /\ ticket_ret.mode \in {-1, 0, 1}
  /\ ticket_ret.res \in {-2, -1, 0, 1, 2}
  /\ ticket_ret.conn \in Conns \cup {"none"}
  /\ pk_pc \in {"daemon", "session"}
  /\ pk_lookup.sid \in {0} \cup PkeySids /\ pk_lookup.scrub \in BOOLEAN
  /\ Len(pk_lookup.list) <= MaxPkeys
  /\ tls_pkey_list \in Seq([sid : {0} \cup PkeySids, passlen : PkeyPasslens,
                            page : 0..MaxPkeys])
  /\ pk_pages \in [1..MaxPkeys -> [st : {"none", "alloc", "freed"},
                                   zero : BOOLEAN, locked : BOOLEAN]]
  /\ dh_pc \in {"config", "running"}
  /\ tls_tmp_dhs \in Seq(DhFileLens \cup BuiltinDhLens)
  /\ opt_allow_weak_dh \in BOOLEAN
  /\ dh_ret.bits \in {0} \cup DhFileLens \cup BuiltinDhLens
  /\ pc \in {"preinit", "active", "disconnected"}
  /\ tls_engine \in BOOLEAN
  /\ tls_flags \subseteq {"ON_CTRL", "ON_DATA", "PBSZ_OK", "NEED_DATA_PROT",
                          "CTRL_RENEGOTIATING", "DATA_RENEGOTIATING",
                          "HAVE_CCC", "VERIFY_CLIENT_REQUIRED"}
  /\ tls_opts \subseteq ModelledOpts
  /\ session_notes \in [host : Names \cup {NoName}, sni : Names \cup {NoName}]
  /\ ssl_servername \in Names \cup {NoName}
  /\ sni_vh \in VhEnvs
  /\ peeked \in BOOLEAN /\ end_bidi \in BOOLEAN
  /\ tls_required_on_ctrl \in {0, 1}
  /\ tls_required_on_data \in {-1, 0, 1}
  /\ tls_required_on_auth \in {0, 1}
  /\ ctrl_ssl \in {NULL} \cup SslIds
  /\ n_ssl \in 0..MaxSsl
  /\ \A s \in Streams : notes[s] \in {NULL} \cup SslIds

====
